---- MODULE Spec2Model ----
(***************************************************************************)
(* Model Court: the trial orchestration engine.                            *)
(*                                                                         *)
(*   Spec        Court.hear over a precedent store and a clock: the        *)
(*               Prosecutor, the jury panel run through                    *)
(*               run_with_concurrency_limit, the Judge and the write-back  *)
(*   SpecJury    Jury.vote of one jury on one claim, simple and STEEL mode *)
(*   SpecRace    two Court.hear calls at once on one store, same claim text *)
(*   SpecJuryTwice  Jury.vote called twice on one claim, the Reasoner and  *)
(*               the EvidenceSource being deterministic stubs              *)
(*   SpecRunner  run_with_concurrency_limit on its own                     *)
(***************************************************************************)
EXTENDS Integers, Sequences, FiniteSets, TLC

VARIABLES
    \* ---- the precedent store and the clock
    store,               \* court_code rows, in insertion (rowid) order
    now,                 \* datetime.now()
    \* ---- Court.hear
    pc,                  \* position in hear
    trials,              \* hear() calls ended
    env,                 \* the collaborators while the current claim is tried: "stub",
                         \* "arbitrary" (the juries) or "faulty" (the Judge and the store)
    wild,                \* claims tried so far with arbitrary, and with faulty, collaborators
    claim_texts,         \* Prosecutor.process: claim_texts
    claims,              \* prosecutor_report.claims
    idx,                 \* the claim the for loop of hear is at
    votes,               \* _conduct_jury_trial: votes
    successful_votes,    \* _conduct_jury_trial: successful_votes
    claim_results,       \* hear: claim_results
    mistrial_occurred,   \* hear: mistrial_occurred
    partial_failure,     \* hear: partial_failure
    error_message,       \* hear: error_message
    report,              \* the CaseReport hear returned last
    hear_raised,         \* an exception left hear
    trace,               \* per claim of the case: what was invoked for it
    \* ---- Jury.vote (one jury, one claim)
    j_pc,                \* position in vote / _vote_simple / _vote_with_steel
    j_cfg,               \* the jury: search_cycle_mode, reference set?, search_cycle_max
    j_claim,             \* the claim voted on
    search_cycle,        \* _vote_with_steel: search_cycle
    query,               \* _vote_with_steel: query
    collected_evidence,  \* _vote_with_steel: collected_evidence (the queries that produced a snippet)
    evidence_text,       \* _vote_simple: is evidence_text non-empty
    j_vote,              \* the JuryVote returned, NoneVote before
    j_raised,            \* an exception left Jury.vote
    j_calls,             \* requests issued: retrieve, sufficiency, final; and the
                         \* request of the STEEL loop that raised, if one did
    j_final,             \* the Reasoner's answer to the final decision request
    j_sufficiency,       \* _vote_with_steel: the outcome of the last sufficiency request
    final_evidence,      \* _vote_with_steel: the evidence joined into the final prompt
    queries,             \* the queries reference.retrieve was called with, in order
    stub,                \* deterministic stubs: the answer given to every request so far
    earlier,             \* the outcome of the call of vote before this one, if any

    \* ---- run_with_concurrency_limit
    r_pc,                \* "idle", "running", "returned" (gather returned), "raised"
    r_caller,            \* who built the units: "court" (get_vote) or "direct" (bare coroutines)
    r_limit,             \* limit
    semaphore,           \* asyncio.Semaphore: free permits
    task_state,          \* per unit: "pending", "running", "done", "failed"
    task_result,         \* per unit: what it returned
    completion,          \* SpecRunner: the units in the order they ended, and how
    r_out,               \* the list gather returned
    \* ---- one call of a function or constructor on its own
    call,                \* the function and its arguments
    ret,                 \* what the call returned or raised, NoRet before
    \* ---- hear calls running concurrently on one store
    hears,               \* per call: its position, its claim, claim_results, the
                         \* entry it inserted and its report
    later                \* a lookup of the same text after the calls have returned

courtVars == <<store, now, pc, trials, env, wild, claim_texts, claims, idx, votes,
               successful_votes,
               claim_results, mistrial_occurred, partial_failure, error_message, report,
               hear_raised, trace>>

runnerVars == <<r_pc, r_caller, r_limit, semaphore, task_state, task_result, completion, r_out>>

juryVars == <<j_pc, j_cfg, j_claim, search_cycle, query, collected_evidence, evidence_text,
              j_vote, j_raised, j_calls, j_final, j_sufficiency, final_evidence, queries,
              stub, earlier>>

callVars == <<call, ret>>

raceVars == <<hears, later>>

vars == <<courtVars, juryVars, runnerVars, callVars, raceVars>>

(* ------------------------------ bounds --------------------------------- *)

\* hear() calls in one behaviour
MaxTrials == 3

\* claims tried while the juries and their Reasoner are arbitrary; the
\* other claims are tried by stub juries that vote no_objection
MaxWild == 1

\* claims tried while the Judge's Reasoner and the store's insert are
\* arbitrary; for the other claims they always succeed
MaxFaulty == 1

\* largest clock value
MaxTime == 2

\* rows the store may come to hold: hear is not called with more claims than
\* the store has room for
MaxStore == 3

\* claims the Prosecutor derives from one case
MaxClaims == 2

\* juries configured on the Court
NumJuries == 3

(* ------------------------- program constants --------------------------- *)

\* court.py:112  claim.text[:50]
ErrorTextLen == 50

\* prosecutor.py:103  top_k=5
SimilarTopK == 5

(* ------------------------------ values --------------------------------- *)

\* claim texts (sequences of characters): a short one and one longer than
\* the slice the mistrial message keeps
LongText == [i \in 1..(ErrorTextLen + 1) |-> 2]

Texts == {<<1>>, LongText}

JuryIds == 1..NumJuries

\* models.py JuryVote.decision
Decisions == {"no_objection", "suspicious_fact", "reasonable_doubt", "abstain"}

\* Python's None for an optional time
NoTime == -1

Min(a, b) == IF a <= b THEN a ELSE b

\* Python slice s[:n]
Prefix(s, n) == SubSeq(s, 1, Min(n, Len(s)))

\* no call in progress, and a call that has not returned
NoCall == [fn |-> "none"]

NoRet == [raised |-> "pending"]

CallIdle == call = NoCall /\ ret = NoRet

(* --------------------------- models.py --------------------------------- *)

\* A float ratio c/n is kept as the pair (num, den); 0.0 is 0/1.
Ratio(c, n) == [num |-> c, den |-> n]

ZeroRatio == Ratio(0, 1)

\* every vote that is not a plain no_objection taken for an objection
is_objection_unless_clean(v) == v.decision # "no_objection"

\* JuryVote.is_objection
is_objection(v) == v.decision \in {"suspicious_fact", "reasonable_doubt"}

\* a window that has closed once valid_until is reached
is_valid_before_until(e, t) ==
    /\ ~(e.valid_from # NoTime /\ t < e.valid_from)
    /\ ~(e.valid_until # NoTime /\ t >= e.valid_until)

\* CourtCodeEntry.is_valid / Precedent.is_valid with check_date = now
is_valid(e, t) ==
    /\ ~(e.valid_from # NoTime /\ t < e.valid_from)
    /\ ~(e.valid_until # NoTime /\ t > e.valid_until)

\* get_vote's None
NoneVote ==
    [jury_name |-> 0, claim_id |-> 0, decision |-> "None", confidence |-> 0,
     reason |-> [kind |-> "", cause |-> ""], search_cycles |-> 0]

\* error_message = None
NoError == [kind |-> "none", claim |-> <<>>]

(* ----------------------------- jury.py --------------------------------- *)

\* confidence is kept in tenths: 5 is 0.5, 10 is 1.0
ConfMissing == [kind |-> "missing", val |-> 0]
ConfBad     == [kind |-> "bad", val |-> 0]
ConfNum(n)  == [kind |-> "num", val |-> n]

\* What self._llm.generate_json can hand back for the final decision request:
\* it raises (transport error, timeout, no JSON found), it returns parsed JSON
\* that is no object (a list), or an object whose three fields are each
\* present and well-formed, present and ill-formed, or absent.
RaiseResponse == [kind |-> "raise", decision |-> "missing", confidence |-> ConfMissing,
                  reason |-> "missing"]

NonDictResponse == [kind |-> "nondict", decision |-> "missing", confidence |-> ConfMissing,
                    reason |-> "missing"]

DictResponses ==
    [kind : {"dict"},
     decision : Decisions \cup {"bogus", "missing"},
     confidence : {ConfMissing, ConfBad, ConfNum(-1), ConfNum(0), ConfNum(7), ConfNum(10),
                   ConfNum(11)},
     reason : {"text", "nonstring", "missing"}]

FinalResponses == {RaiseResponse, NonDictResponse} \cup DictResponses

\* the exception the parsing block of the final decision raises, "" if none
\*   response.get on a non-dict          AttributeError
\*   float(<not a number>)               ValueError
\*   JuryVote(...) field validation      ValidationError (decision Literal,
\*                                       confidence ge=0 le=1, reason str)
ParseError(resp) ==
    IF resp.kind = "raise" THEN "LLMError"
    ELSE IF resp.kind = "nondict" THEN "AttributeError"
    ELSE IF resp.confidence.kind = "bad" THEN "ValueError"
    ELSE LET decision == IF resp.decision = "missing" THEN "reasonable_doubt"
                         ELSE resp.decision
             confidence == IF resp.confidence.kind = "missing" THEN 5
                           ELSE resp.confidence.val
         IN IF \/ decision \notin Decisions
               \/ confidence < 0
               \/ confidence > 10
               \/ resp.reason = "nonstring"
            THEN "ValidationError"
            ELSE ""

\* the exceptions a step can raise; every one is a subclass of Exception
Exceptions == {"LLMError", "AttributeError", "ValueError", "ValidationError",
               "RetrievalError", "TypeError"}

\* a retrieval without a handler
RetrieveCatchesNothing(err) == FALSE

\* jury.py:131 and :204  "except Exception" around reference.retrieve
RetrieveCaught(err) == err \in Exceptions

\* jury.py:244  "except Exception" around the sufficiency request
SufficiencyCaught(err) == err \in Exceptions

\* jury.py:168 and :284  "except Exception" around the final decision request
FinalCaught(err) == err \in Exceptions

\* a final decision block whose except branch falls back to the defaults of
\* the happy path instead of abstaining
FinalVoteDefaults(name, claim_id, resp, cycles, steel) ==
    [jury_name |-> name,
     claim_id |-> claim_id,
     decision |-> IF resp.decision \in Decisions THEN resp.decision ELSE "reasonable_doubt",
     confidence |-> IF resp.confidence.kind = "num" /\ resp.confidence.val \in 0..10
                    THEN resp.confidence.val ELSE 5,
     reason |-> [kind |-> IF resp.reason = "text" THEN "llm" ELSE "No reason provided",
                 cause |-> ""],
     search_cycles |-> cycles]

\* The try/except around the final decision request, shared by _vote_simple
\* (search_cycles = 1) and _vote_with_steel (search_cycles = search_cycle).
FinalVote(name, claim_id, resp, cycles, steel) ==
    IF ParseError(resp) = ""
    THEN [jury_name |-> name,
          claim_id |-> claim_id,
          decision |-> IF resp.decision = "missing" THEN "reasonable_doubt"
                       ELSE resp.decision,
          confidence |-> IF resp.confidence.kind = "missing" THEN 5
                         ELSE resp.confidence.val,
          reason |-> [kind |-> IF resp.reason = "missing" THEN "No reason provided"
                               ELSE "llm",
                      cause |-> ""],
          search_cycles |-> cycles]
    ELSE [jury_name |-> name,
          claim_id |-> claim_id,
          decision |-> "abstain",
          confidence |-> 0,
          reason |-> [kind |-> IF steel THEN "Error during STEEL evaluation"
                               ELSE "Error during evaluation",
                      cause |-> ParseError(resp)],
          search_cycles |-> cycles]

\* largest search_cycle_max of a jury
MaxCycleMax == 2

\* the query the Reasoner proposes in an insufficient answer
NewQuery == <<9>>

\* the jury's name and the claim it gets
JuryName == 1

JuryClaims == [claim_id : {1}, text : Texts]

JuryConfigs ==
    [search_cycle_mode : BOOLEAN, has_reference : BOOLEAN, search_cycle_max : 0..MaxCycleMax]

\* What self.reference.retrieve hands back: it raises, or a list (empty, of
\* text snippets, or holding an element that is no string, such as None or a
\* raw search hit).
RetrieveOutcomes == {"raise", "empty", "snippets", "nonstring"}

\* the exception the retrieval and the "\n---\n".join of its result raise,
\* "" if none: str.join rejects a non-string element
RetrieveError(out) ==
    IF out = "raise" THEN "RetrievalError"
    ELSE IF out = "nonstring" THEN "TypeError"
    ELSE ""

\* What generate_json hands back for the sufficiency request: it raises, a JSON
\* string, some other non-object, or an object with "sufficient" (a bool, a
\* string, absent) and "new_query" (a query, or empty/absent).
SufficiencyResponses ==
    [kind : {"raise", "other"}, sufficient : {"missing"}, new_query : {<<>>}]
    \cup [kind : {"str"}, sufficient : {"str_yes", "str_other"}, new_query : {<<>>}]
    \cup [kind : {"dict"},
          sufficient : {"true", "false", "str_yes", "str_other", "missing"},
          new_query : {<<>>, NewQuery}]

\* a jury that takes no answer for sufficient
IsSufficientNever(r) == FALSE

\* jury.py:221-228
IsSufficient(r) ==
    IF r.kind = "dict"
    THEN r.sufficient \in {"true", "str_yes"}
    ELSE IF r.kind = "str" THEN r.sufficient = "str_yes"
    ELSE FALSE

\* a jury that searches again with the query it had
NextQueryKeepsOld(q, r) == q

\* jury.py:236-238  EXPAND: the query of the next cycle
NextQuery(q, r) == r.new_query

NoCalls == [retrieve |-> 0, sufficiency |-> 0, final |-> 0, failed |-> "none"]

\* no sufficiency request made yet
NoSufficiency == [kind |-> "none", sufficient |-> "missing", new_query |-> <<>>]

\* a final prompt that carries the evidence of the last retrieval only
FinalEvidenceOfLastCycle(evidence) ==
    IF evidence = <<>> THEN <<>> ELSE <<evidence[Len(evidence)]>>

\* jury.py:249-252  the evidence in the final prompt: the join of all of
\* collected_evidence
FinalEvidence(evidence) == evidence

\* The Reasoner and the EvidenceSource are arbitrary (on is FALSE), or they
\* are deterministic stubs: functions of the query and of the prompt. What a
\* stub has answered is kept as pairs <<request, answer>>.
NoStub == [on |-> FALSE, retrieve |-> {}, sufficiency |-> {}, final |-> {}]

DeterministicStub == [NoStub EXCEPT !.on = TRUE]

\* the stub may give answer to request: it gave no other answer to it before
Answers(memo, request, answer) == \A e \in memo : e[1] = request => e[2] = answer

Remember(memo, request, answer) ==
    IF stub.on THEN memo \cup {<<request, answer>>} ELSE memo

\* jury.py:138-144  what the final prompt of _vote_simple is built from
SimplePrompt ==
    [text |-> j_claim.text, cycles |-> 0,
     evidence |-> IF evidence_text THEN <<j_claim.text>> ELSE <<>>]

\* jury.py:249-260  what the final prompt of _vote_with_steel is built from
SteelPrompt ==
    [text |-> j_claim.text, cycles |-> search_cycle,
     evidence |-> FinalEvidence(collected_evidence)]

\* no call of vote has ended
NoEarlier == [calls |-> 0, vote |-> NoneVote, raised |-> FALSE]

\* a list that still holds what an earlier call collected
EvidenceListKept(previous) == previous

\* jury.py:192  collected_evidence: List[str] = [], whatever an earlier call
\* collected
NewEvidenceList(previous) == <<>>

\* the jury and the claim of a vote, nothing done yet
JuryStart ==
    /\ j_pc = "vote"
    /\ j_cfg \in JuryConfigs
    /\ j_claim \in JuryClaims
    /\ search_cycle = 0
    /\ query = <<>>
    /\ collected_evidence = <<>>
    /\ evidence_text = FALSE
    /\ j_vote = NoneVote
    /\ j_raised = FALSE
    /\ j_calls = NoCalls
    /\ j_final = RaiseResponse
    /\ j_sufficiency = NoSufficiency
    /\ final_evidence = <<>>
    /\ queries = <<>>
    /\ earlier = NoEarlier

JuryInit == JuryStart /\ stub = NoStub

\* no vote in progress
JuryIdle ==
    /\ j_pc = "idle"
    /\ j_cfg = [search_cycle_mode |-> FALSE, has_reference |-> FALSE, search_cycle_max |-> 0]
    /\ j_claim = [claim_id |-> 0, text |-> <<>>]
    /\ search_cycle = 0
    /\ query = <<>>
    /\ collected_evidence = <<>>
    /\ evidence_text = FALSE
    /\ j_vote = NoneVote
    /\ j_raised = FALSE
    /\ j_calls = NoCalls
    /\ j_final = RaiseResponse
    /\ j_sufficiency = NoSufficiency
    /\ final_evidence = <<>>
    /\ queries = <<>>
    /\ stub = NoStub
    /\ earlier = NoEarlier

\* Jury.vote: the mode dispatch, and the locals of the chosen method
\* (jury.py:122, 192-194)
Vote ==
    /\ UNCHANGED <<courtVars, runnerVars, callVars, raceVars>>
    /\ j_pc = "vote"
    /\ IF j_cfg.search_cycle_mode /\ j_cfg.has_reference
       THEN /\ query' = j_claim.text
            /\ j_pc' = IF 0 < j_cfg.search_cycle_max THEN "search" ELSE "final"
       ELSE /\ query' = query
            /\ j_pc' = IF j_cfg.has_reference THEN "retrieve" ELSE "decide"
    /\ search_cycle' = 0
    /\ collected_evidence' = NewEvidenceList(collected_evidence)
    /\ evidence_text' = FALSE
    /\ UNCHANGED <<j_cfg, j_claim, j_vote, j_raised, j_calls, j_final, j_sufficiency,
                   final_evidence, queries, stub, earlier>>

\* jury.py:125-132  _vote_simple: the evidence retrieval and the join, both
\* inside the try (a failure is only logged)
SimpleRetrieve(out) ==
    /\ UNCHANGED <<courtVars, runnerVars, callVars, raceVars>>
    /\ j_pc = "retrieve"
    /\ Answers(stub.retrieve, j_claim.text, out)
    /\ stub' = [stub EXCEPT !.retrieve = Remember(@, j_claim.text, out)]
    /\ j_calls' = [j_calls EXCEPT !.retrieve = @ + 1,
                                  !.failed = IF RetrieveError(out) # "" THEN "retrieve" ELSE @]
    /\ evidence_text' = (out = "snippets")
    /\ IF RetrieveError(out) # "" /\ ~RetrieveCaught(RetrieveError(out))
       THEN j_pc' = "raised" /\ j_raised' = TRUE
       ELSE j_pc' = "decide" /\ UNCHANGED j_raised
    /\ UNCHANGED <<j_cfg, j_claim, search_cycle, query, collected_evidence, j_vote, j_final,
                   j_sufficiency, final_evidence, earlier>>
    /\ queries' = Append(queries, j_claim.text)

\* _vote_simple: the decision request and the vote
SimpleDecide(resp) ==
    /\ UNCHANGED <<courtVars, runnerVars, callVars, raceVars>>
    /\ j_pc = "decide"
    /\ Answers(stub.final, SimplePrompt, resp)
    /\ stub' = [stub EXCEPT !.final = Remember(@, SimplePrompt, resp)]
    /\ j_calls' = [j_calls EXCEPT !.final = @ + 1]
    /\ j_final' = resp
    /\ IF ParseError(resp) # "" /\ ~FinalCaught(ParseError(resp))
       THEN j_pc' = "raised" /\ j_raised' = TRUE /\ UNCHANGED j_vote
       ELSE /\ j_vote' = FinalVote(JuryName, j_claim.claim_id, resp, 1, FALSE)
            /\ j_pc' = "done"
            /\ UNCHANGED j_raised
    /\ UNCHANGED <<j_cfg, j_claim, search_cycle, query, collected_evidence, evidence_text,
                   j_sufficiency, final_evidence, queries, earlier>>

\* jury.py:197-209  _vote_with_steel, SEARCH: one more cycle, one retrieval
\* with the current query inside the try, then the join of collected_evidence
\* outside it
SteelSearch(out) ==
    /\ UNCHANGED <<courtVars, runnerVars, callVars, raceVars>>
    /\ j_pc = "search"
    /\ Answers(stub.retrieve, query, out)
    /\ stub' = [stub EXCEPT !.retrieve = Remember(@, query, out)]
    /\ search_cycle' = search_cycle + 1
    /\ j_calls' = [j_calls EXCEPT !.retrieve = @ + 1,
                                  !.failed = IF out = "raise" THEN "retrieve" ELSE @]
    /\ IF out = "raise"
       THEN /\ IF RetrieveCaught(RetrieveError(out))
               THEN j_pc' = "final" /\ UNCHANGED j_raised
               ELSE j_pc' = "raised" /\ j_raised' = TRUE
            /\ UNCHANGED collected_evidence
       ELSE /\ collected_evidence' = IF out = "empty"
                                     THEN collected_evidence
                                     ELSE Append(collected_evidence, query)
            /\ IF RetrieveError(out) # ""
               THEN j_pc' = "raised" /\ j_raised' = TRUE
               ELSE j_pc' = "think" /\ UNCHANGED j_raised
    /\ queries' = Append(queries, query)
    /\ UNCHANGED <<j_cfg, j_claim, query, evidence_text, j_vote, j_final, j_sufficiency,
                   final_evidence, earlier>>

\* _vote_with_steel, THINK and EXPAND: the sufficiency request and what follows
SteelThink(r) ==
    /\ UNCHANGED <<courtVars, runnerVars, callVars, raceVars>>
    /\ j_pc = "think"
    /\ Answers(stub.sufficiency, collected_evidence, r)
    /\ stub' = [stub EXCEPT !.sufficiency = Remember(@, collected_evidence, r)]
    /\ j_calls' = [j_calls EXCEPT !.sufficiency = @ + 1,
                                  !.failed = IF r.kind = "raise" THEN "sufficiency" ELSE @]
    /\ j_sufficiency' = r
    /\ IF r.kind = "raise" /\ ~SufficiencyCaught("LLMError")
       THEN j_pc' = "raised" /\ j_raised' = TRUE /\ UNCHANGED query
       ELSE /\ UNCHANGED j_raised
            /\ IF r.kind = "raise" \/ IsSufficient(r) \/ r.kind # "dict" \/ r.new_query = <<>>
               THEN /\ j_pc' = "final"
                    /\ UNCHANGED query
               ELSE /\ query' = NextQuery(query, r)
                    /\ j_pc' = IF search_cycle < j_cfg.search_cycle_max THEN "search"
                               ELSE "final"
    /\ UNCHANGED <<j_cfg, j_claim, search_cycle, collected_evidence, evidence_text, j_vote,
                   j_final, final_evidence, queries, earlier>>

\* _vote_with_steel: the final decision request and the vote
SteelDecide(resp) ==
    /\ UNCHANGED <<courtVars, runnerVars, callVars, raceVars>>
    /\ j_pc = "final"
    /\ Answers(stub.final, SteelPrompt, resp)
    /\ stub' = [stub EXCEPT !.final = Remember(@, SteelPrompt, resp)]
    /\ final_evidence' = FinalEvidence(collected_evidence)
    /\ j_calls' = [j_calls EXCEPT !.final = @ + 1]
    /\ j_final' = resp
    /\ IF ParseError(resp) # "" /\ ~FinalCaught(ParseError(resp))
       THEN j_pc' = "raised" /\ j_raised' = TRUE /\ UNCHANGED j_vote
       ELSE /\ j_vote' = FinalVote(JuryName, j_claim.claim_id, resp, search_cycle, TRUE)
            /\ j_pc' = "done"
            /\ UNCHANGED j_raised
    /\ UNCHANGED <<j_cfg, j_claim, search_cycle, query, collected_evidence, evidence_text,
                   j_sufficiency, queries, earlier>>

\* vote has returned or raised, and the caller calls it again on the same
\* claim: the jury is the object the first call left, the frame is a new one
VoteAgain ==
    /\ UNCHANGED <<courtVars, runnerVars, callVars, raceVars>>
    /\ j_pc \in {"done", "raised"}
    /\ earlier.calls = 0
    /\ earlier' = [calls |-> 1, vote |-> j_vote, raised |-> j_raised]
    /\ j_pc' = "vote"
    /\ j_vote' = NoneVote
    /\ j_raised' = FALSE
    /\ j_calls' = NoCalls
    /\ j_final' = RaiseResponse
    /\ j_sufficiency' = NoSufficiency
    /\ final_evidence' = <<>>
    /\ queries' = <<>>
    /\ UNCHANGED <<j_cfg, j_claim, search_cycle, query, collected_evidence, evidence_text,
                   stub>>

JuryNext ==
    \/ Vote
    \/ \E out \in RetrieveOutcomes : SimpleRetrieve(out)
    \/ \E resp \in FinalResponses : SimpleDecide(resp)
    \/ \E out \in RetrieveOutcomes : SteelSearch(out)
    \/ \E r \in SufficiencyResponses : SteelThink(r)
    \/ \E resp \in FinalResponses : SteelDecide(resp)

(* ---------------------------- helpers.py ------------------------------- *)

\* a unit that has produced nothing (yet)
NoResult == NoneVote

RunnerIdle ==
    /\ r_pc = "idle"
    /\ r_caller = "court"
    /\ r_limit = 1
    /\ semaphore = 0
    /\ task_state = <<>>
    /\ task_result = <<>>
    /\ completion = <<>>
    /\ r_out = <<>>

\* helpers.py:25,31  semaphore = asyncio.Semaphore(limit); gather(*[bounded_task(t) ...])
RunnerStart(n, limit, caller) ==
    /\ r_pc' = "running"
    /\ r_caller' = caller
    /\ r_limit' = limit
    /\ semaphore' = limit
    /\ task_state' = [i \in 1..n |-> "pending"]
    /\ task_result' = [i \in 1..n |-> NoResult]
    /\ completion' = <<>>
    /\ r_out' = <<>>

\* units entering without waiting for a permit
SemAcquireUnbounded(i) ==
    /\ i \in DOMAIN task_state
    /\ task_state[i] = "pending"
    /\ semaphore' = semaphore - 1
    /\ task_state' = [task_state EXCEPT ![i] = "running"]
    /\ UNCHANGED <<r_pc, r_caller, r_limit, task_result, r_out>>

\* helpers.py:28  "async with semaphore": unit i enters when a permit is free.
\* gather starts the wrappers in list order and asyncio.Semaphore wakes its
\* waiters first-in first-out, so units enter in list order.
SemAcquire(i) ==
    /\ i \in DOMAIN task_state
    /\ task_state[i] = "pending"
    /\ \A j \in 1..(i - 1) : task_state[j] # "pending"
    /\ semaphore > 0
    /\ semaphore' = semaphore - 1
    /\ task_state' = [task_state EXCEPT ![i] = "running"]
    /\ UNCHANGED <<r_pc, r_caller, r_limit, task_result, r_out>>

\* helpers.py:29  "return await task": unit i returns value; the permit is released
UnitReturns(i, value) ==
    /\ i \in DOMAIN task_state
    /\ task_state[i] = "running"
    /\ task_state' = [task_state EXCEPT ![i] = "done"]
    /\ task_result' = [task_result EXCEPT ![i] = value]
    /\ semaphore' = semaphore + 1
    /\ UNCHANGED <<r_pc, r_caller, r_limit, r_out>>

\* helpers.py:29,31  unit i raises: bounded_task has no handler, the permit is
\* released, and gather (return_exceptions is not set) raises to the caller
\* at the first such unit; the other units keep running, their results unread.
UnitRaises(i) ==
    /\ i \in DOMAIN task_state
    /\ task_state[i] = "running"
    /\ task_state' = [task_state EXCEPT ![i] = "failed"]
    /\ semaphore' = semaphore + 1
    /\ r_pc' = IF r_pc = "running" THEN "raised" ELSE r_pc
    /\ UNCHANGED <<r_caller, r_limit, task_result, r_out>>

\* the list asyncio.gather returns: result i is the result of awaitable i
Gather(results) == [i \in 1..Len(results) |-> results[i]]

\* a gather that returns while one unit is still out
AllButOneDone ==
    Cardinality({i \in DOMAIN task_state : task_state[i] = "done"}) >= Len(task_state) - 1

\* helpers.py:31  every unit has returned: gather returns
AllDone == \A i \in DOMAIN task_state : task_state[i] = "done"

GatherReturns ==
    /\ r_pc = "running"
    /\ AllDone
    /\ r_pc' = "returned"
    /\ r_out' = Gather(task_result)
    /\ UNCHANGED <<r_caller, r_limit, semaphore, task_state, task_result>>

\* a get_vote without its handler
GetVoteCatchesNothing(err) == FALSE

\* court.py:154-159  get_vote: "except Exception" around jury.vote
GetVoteCaught(err) == err \in Exceptions \cup {"JuryError"}

\* ---- run_with_concurrency_limit on its own: units that return their own
\* ---- position or raise, handed over bare ("direct") or each wrapped the way
\* ---- Court._conduct_jury_trial wraps jury.vote in get_vote ("court")

\* the value unit i returns
UnitValue(i) == [NoneVote EXCEPT !.jury_name = i, !.decision = "no_objection"]

RunAcquire(i) == SemAcquire(i) /\ UNCHANGED <<courtVars, juryVars, completion, callVars, raceVars>>

RunUnitOk(i) ==
    /\ UnitReturns(i, UnitValue(i))
    /\ completion' = Append(completion, [unit |-> i, ok |-> TRUE])
    /\ UNCHANGED <<courtVars, juryVars, callVars, raceVars>>

\* the work of unit i fails
RunUnitFails(i) ==
    /\ IF r_caller = "court" /\ GetVoteCaught("JuryError")
       THEN UnitReturns(i, NoneVote)
       ELSE UnitRaises(i)
    /\ completion' = Append(completion, [unit |-> i, ok |-> FALSE])
    /\ UNCHANGED <<courtVars, juryVars, callVars, raceVars>>

RunGather == GatherReturns /\ UNCHANGED <<courtVars, juryVars, completion, callVars, raceVars>>

RunnerNext ==
    \/ \E i \in JuryIds : RunAcquire(i)
    \/ \E i \in JuryIds : RunUnitOk(i)
    \/ \E i \in JuryIds : RunUnitFails(i)
    \/ RunGather

\* ---- calculate_verdict

\* judge.py:53-57  the Judge's default verdict rules, in dict order
DefaultVerdictRules ==
    << [verdict |-> "supported", operator |-> "eq", value |-> Ratio(0, 1)],
       [verdict |-> "suspicious", operator |-> "lt", value |-> Ratio(1, 2)],
       [verdict |-> "refuted", operator |-> "default", value |-> ZeroRatio] >>

\* helpers.py:103  rule.get("value") of a rule that has no "value": None
NoValue == [num |-> 0, den |-> 0]

\* helpers.py:105-114  the operator tests, on floats c/n compared exactly; None
\* equals no float
RuleMatches(rule, r) ==
    LET a == r.num * rule.value.den
        b == rule.value.num * r.den
    IN /\ rule.value # NoValue
       /\ \/ rule.operator = "eq" /\ a = b
          \/ rule.operator = "lt" /\ a < b
          \/ rule.operator = "le" /\ a <= b
          \/ rule.operator = "gt" /\ a > b
          \/ rule.operator = "ge" /\ a >= b

\* helpers.py:107-114  float < None, <=, >, >= raise TypeError; == does not
Incomparable(rule) ==
    rule.operator \in {"lt", "le", "gt", "ge"} /\ rule.value = NoValue

\* a scan that also raises at an operator it has no test for
RECURSIVE RaisesAtUnknownOperatorFrom(_, _, _)
RaisesAtUnknownOperatorFrom(objection_ratio, rules, i) ==
    IF i > Len(rules)
    THEN FALSE
    ELSE IF rules[i].operator = "default"
         THEN RaisesAtUnknownOperatorFrom(objection_ratio, rules, i + 1)
         ELSE IF Incomparable(rules[i])
                   \/ rules[i].operator \notin {"eq", "lt", "le", "gt", "ge"}
              THEN TRUE
              ELSE IF RuleMatches(rules[i], objection_ratio)
                   THEN FALSE
                   ELSE RaisesAtUnknownOperatorFrom(objection_ratio, rules, i + 1)

\* helpers.py:97-114  the scan from rule i on raises: it reaches a rule whose
\* test cannot be evaluated before any rule matches
RECURSIVE RaisesFrom(_, _, _)
RaisesFrom(objection_ratio, rules, i) ==
    IF i > Len(rules)
    THEN FALSE
    ELSE IF rules[i].operator = "default"
         THEN RaisesFrom(objection_ratio, rules, i + 1)
         ELSE IF Incomparable(rules[i])
              THEN TRUE
              ELSE IF RuleMatches(rules[i], objection_ratio)
                   THEN FALSE
                   ELSE RaisesFrom(objection_ratio, rules, i + 1)

\* a scan that returns the default verdict at the place where it stands
RECURSIVE VerdictFromDefaultInPlace(_, _, _, _)
VerdictFromDefaultInPlace(objection_ratio, rules, i, dflt) ==
    IF i > Len(rules)
    THEN "unknown"
    ELSE IF rules[i].operator = "default" \/ RuleMatches(rules[i], objection_ratio)
         THEN rules[i].verdict
         ELSE VerdictFromDefaultInPlace(objection_ratio, rules, i + 1, dflt)

\* helpers.py:95-117  the scan from rule i on, default_verdict so far in dflt
RECURSIVE VerdictFrom(_, _, _, _)
VerdictFrom(objection_ratio, rules, i, dflt) ==
    IF i > Len(rules)
    THEN (IF dflt = "" THEN "unknown" ELSE dflt)
    ELSE IF rules[i].operator = "default"
         THEN VerdictFrom(objection_ratio, rules, i + 1, rules[i].verdict)
         ELSE IF RuleMatches(rules[i], objection_ratio)
              THEN rules[i].verdict
              ELSE VerdictFrom(objection_ratio, rules, i + 1, dflt)

calculate_verdict(objection_ratio, rules) == VerdictFrom(objection_ratio, rules, 1, "")

(* ----------------------------- judge.py -------------------------------- *)

\* judge.py:50-57  Judge.__init__ looks at no rule: it raises for none
JudgeInitRaises(verdict_rules) == FALSE

\* judge.py:53-57  self.verdict_rules = verdict_rules or the default rules; an
\* empty dict is falsy
JudgeObject(verdict_rules) ==
    [verdict_rules |-> IF verdict_rules = <<>> THEN DefaultVerdictRules
                       ELSE verdict_rules]

\* judge.py:90
ObjectionCount(jury_votes) ==
    Cardinality({i \in DOMAIN jury_votes : is_objection(jury_votes[i])})

\* a ratio taken over every vote the panel returned
ObjectionRatioAllVotes(jury_votes) ==
    IF Len(votes) > 0 THEN Ratio(ObjectionCount(jury_votes), Len(votes))
    ELSE ZeroRatio

\* judge.py:91
ObjectionRatio(jury_votes) ==
    IF Len(jury_votes) > 0 THEN Ratio(ObjectionCount(jury_votes), Len(jury_votes))
    ELSE ZeroRatio

\* a Judge that follows the precedents attached to the claim, whatever the
\* votes are
JudgeVerdictHeedingPrecedents(verdict_rules, claim, jury_votes, reasoning) ==
    [claim |-> claim,
     jury_votes |-> jury_votes,
     verdict |-> IF claim.precedents # {} THEN "refuted"
                 ELSE calculate_verdict(ObjectionRatio(jury_votes), verdict_rules),
     judge_reasoning |-> reasoning,
     objection_count |-> ObjectionCount(jury_votes),
     objection_ratio |-> ObjectionRatio(jury_votes)]

\* judge.py:89-111  Judge.verdict of a judge holding verdict_rules, when it
\* returns with the reasoning text reasoning
JudgeVerdictWith(verdict_rules, claim, jury_votes, reasoning) ==
    [claim |-> claim,
     jury_votes |-> jury_votes,
     verdict |-> calculate_verdict(ObjectionRatio(jury_votes), verdict_rules),
     judge_reasoning |-> reasoning,
     objection_count |-> ObjectionCount(jury_votes),
     objection_ratio |-> ObjectionRatio(jury_votes)]

\* Judge.verdict of the Court's judge, one built without rules of its own, when
\* it returns: reasoning is "llm" (the Reasoner's text) or "fallback"
\* (_generate_fallback_reasoning)
JudgeVerdict(claim, jury_votes, reasoning) ==
    JudgeVerdictWith(JudgeObject(<<>>).verdict_rules, claim, jury_votes, reasoning)

\* ---- _generate_reasoning

\* What generate_json hands back for the reasoning request: it raises, JSON
\* that is no object, or an object whose "reasoning" is a text, an empty text,
\* absent, or no string
ReasonerAnswers == {"raise", "nondict", "text", "empty", "missing", "nonstring"}

\* the exception the request and response.get raise, "" if none
ReasoningError(answer) ==
    IF answer = "raise" THEN "LLMError"
    ELSE IF answer = "nondict" THEN "AttributeError"
    ELSE ""

\* judge.py:185  "except Exception" around the reasoning request
ReasoningCaught(err) == err \in Exceptions

\* a reasoning text: what produced it and, for the templated sentence, the
\* verdict word and the numbers it states
Reasoning(kind, states, total_votes, objection_count, objection_ratio) ==
    [kind |-> kind, states |-> states, total_votes |-> total_votes,
     objection_count |-> objection_count, objection_ratio |-> objection_ratio]

\* judge.py:191-224  _generate_fallback_reasoning: the first template states
\* the vote count only, the other two also int(total_votes * objection_ratio)
\* and the ratio
generate_fallback_reasoning(total_votes, objection_ratio, verdict) ==
    LET objection_count == (total_votes * objection_ratio.num) \div objection_ratio.den
    IN IF verdict = "supported"
       THEN Reasoning("fallback", "SUPPORTED", total_votes, 0, ZeroRatio)
       ELSE IF verdict = "suspicious"
            THEN Reasoning("fallback", "SUSPICIOUS", total_votes, objection_count,
                           objection_ratio)
            ELSE Reasoning("fallback", "REFUTED", total_votes, objection_count,
                           objection_ratio)

\* judge.py:169-189  _generate_reasoning when it returns
generate_reasoning(answer, total_votes, objection_ratio, verdict) ==
    IF ReasoningError(answer) # "" \/ answer \in {"empty", "missing"}
    THEN generate_fallback_reasoning(total_votes, objection_ratio, verdict)
    ELSE Reasoning(IF answer = "text" THEN "llm" ELSE "nonstring", "", 0, 0, ZeroRatio)

\* the exception that leaves Judge.verdict, "" if none: calculate_verdict
\* raises, the reasoning request raises past its handler, or ClaimResult
\* rejects a judge_reasoning that is no string
VerdictError(verdict_rules, jury_votes, answer) ==
    IF RaisesFrom(ObjectionRatio(jury_votes), verdict_rules, 1) THEN "TypeError"
    ELSE IF ReasoningError(answer) # "" /\ ~ReasoningCaught(ReasoningError(answer))
         THEN ReasoningError(answer)
    ELSE IF answer = "nonstring" THEN "ValidationError"
    ELSE ""

\* court.py:52  the judge the Court renders verdicts with: the one it was given
JudgeOfCourt(court, judge) == judge

(* -------------------------- sqlite_code.py ----------------------------- *)

\* sqlite_code.py:215-223  the rows "WHERE claim = ?" selects
ExactRows(rows, text) == {i \in DOMAIN rows : rows[i].claim = text}

\* sqlite_code.py:223  fetchone(): which of the selected rows search_exact may
\* return (the query has no ORDER BY); 0 is None
search_exact(rows, text) ==
    IF ExactRows(rows, text) = {} THEN {0} ELSE ExactRows(rows, text)

\* an insert that overwrites the row holding the same claim text, if any
add_entry_or_replace(rows, entry, period) ==
    IF \E i \in DOMAIN rows : rows[i].claim = entry.claim
    THEN [i \in DOMAIN rows |-> IF rows[i].claim = entry.claim THEN entry ELSE rows[i]]
    ELSE Append(rows, entry)

\* sqlite_code.py:319-347  add_entry: the validity window, then the INSERT
add_entry(rows, entry, period) ==
    Append(rows,
           IF entry.valid_from = NoTime /\ period # 0
           THEN [entry EXCEPT !.valid_from = entry.timestamp,
                              !.valid_until = entry.timestamp + period]
           ELSE entry)

\* ---- search_similar

\* sqlite_code.py:263  similarities: 1.0 / (1.0 + dist), dist in tenths
Similarity(dist) == Ratio(10, 10 + dist)

\* sqlite_code.py:271-272  similarity < threshold: the candidate is skipped
BelowThreshold(similarity, threshold) ==
    similarity.num * threshold.den < threshold.num * similarity.den

\* sqlite_code.py:274-283  SELECT ... WHERE entry_id = ?, fetchone(); entry_id
\* is the primary key
RowsWithId(rows, entry_id) == {i \in DOMAIN rows : rows[i].entry_id = entry_id}

\* sqlite_code.py:271-294  the loop over the candidates of the index, from
\* candidate k on: the precedents appended
RECURSIVE Precedents(_, _, _, _)
Precedents(hits, rows, threshold, k) ==
    IF k > Len(hits) THEN <<>>
    ELSE LET similarity == Similarity(hits[k].dist)
             found == RowsWithId(rows, hits[k].id)
             rest == Precedents(hits, rows, threshold, k + 1)
         IN IF BelowThreshold(similarity, threshold) \/ found = {}
            THEN rest
            ELSE LET entry == rows[CHOOSE i \in found : TRUE]
                 IN <<[precedent_id |-> entry.entry_id, claim |-> entry.claim,
                       verdict |-> entry.verdict, similarity_score |-> similarity]>>
                       \o rest

\* list.sort(key, reverse=True) is stable: p goes behind every element whose
\* score is not smaller
RECURSIVE InsertBySimilarity(_, _)
InsertBySimilarity(sorted, p) ==
    IF sorted = <<>> THEN <<p>>
    ELSE IF BelowThreshold(sorted[1].similarity_score, p.similarity_score)
    THEN <<p>> \o sorted
    ELSE <<sorted[1]>> \o InsertBySimilarity(Tail(sorted), p)

RECURSIVE SortedFrom(_, _, _)
SortedFrom(precedents, k, sorted) ==
    IF k > Len(precedents) THEN sorted
    ELSE SortedFrom(precedents, k + 1, InsertBySimilarity(sorted, precedents[k]))

\* a list left in the order of the index
LeftAsFound(precedents) == precedents

\* sqlite_code.py:299  precedents.sort(key=lambda p: p.similarity_score, reverse=True)
SortBySimilarity(precedents) == SortedFrom(precedents, 1, <<>>)

\* sqlite_code.py:304  "except Exception" around the index query and the loop
SimilarCaught(err) == err \in Exceptions \cup {"IndexError"}

\* the exception that leaves search_similar, "" if none
SimilarError(enabled, index) ==
    IF enabled /\ index.kind = "raise" /\ ~SimilarCaught("IndexError") THEN "IndexError"
    ELSE ""

\* sqlite_code.py:233-306  search_similar when it returns: index is what
\* self._chroma_collection.query answered
search_similar(enabled, index, rows, top_k, threshold) ==
    IF ~enabled \/ index.kind = "raise" THEN <<>>
    ELSE Prefix(SortBySimilarity(Precedents(index.hits, rows, threshold, 1)), top_k)

(* ------------------------------ base.py -------------------------------- *)

\* base.py:145-156  search_with_validity, given the row search_exact returned
\* (0: None) and the entries search_similar returned
search_with_validity(rows, exact, similar, check_date) ==
    [exact |-> IF exact # 0 /\ ~is_valid(rows[exact], check_date) THEN 0 ELSE exact,
     similar |-> {p \in similar : is_valid(rows[p], check_date)}]

(* --------------------------- prosecutor.py ----------------------------- *)

\* prosecutor.py:91-123  the Claim built for claim_text, given the row
\* search_exact returned (0: None) and the entries search_similar returned
Classify(rows, t, id, claim_text, exact, similar) ==
    IF exact # 0 /\ is_valid(rows[exact], t)
    THEN [claim_id |-> id, text |-> claim_text, source |-> "cache",
          cache_id |-> exact, cached_verdict |-> rows[exact].verdict, precedents |-> {}]
    ELSE LET valid_precedents == {p \in similar : is_valid(rows[p], t)}
         IN [claim_id |-> id, text |-> claim_text,
             source |-> IF valid_precedents # {} THEN "precedent" ELSE "new",
             cache_id |-> 0, cached_verdict |-> "", precedents |-> valid_precedents]

\* ---- _split_into_claims

\* A text is a sequence of characters; 0 is a blank. str.strip()
RECURSIVE Strip(_)
Strip(text) ==
    IF text = <<>> THEN <<>>
    ELSE IF Head(text) = 0 THEN Strip(Tail(text))
    ELSE IF text[Len(text)] = 0 THEN Strip(SubSeq(text, 1, Len(text) - 1))
    ELSE text

\* the exception the request and the parsing of its answer raise, "" if none:
\* generate fails; or the answer is no JSON and the bracketed part the regex
\* finds in it is no JSON either (this json.loads is outside the inner try)
SplitError(resp) ==
    IF resp.kind = "raise" THEN "LLMError"
    ELSE IF resp.json = "invalid" /\ resp.bracket = "invalid" THEN "JSONDecodeError"
    ELSE ""

\* a splitter without its outer handler
SplitCatchesNothing(err) == FALSE

\* prosecutor.py:183  "except Exception" around the request and the parsing
SplitCaught(err) == err \in Exceptions \cup {"JSONDecodeError"}

\* prosecutor.py:169-181  the value the parsing yields is a list of strings
IsListOfStrings(resp) ==
    /\ resp.json = "list" \/ (resp.json = "invalid" /\ resp.bracket = "list")
    /\ \A i \in DOMAIN resp.items : resp.items[i].str

\* prosecutor.py:180  [c.strip() for c in claims if c.strip()]
RECURSIVE StrippedNonBlank(_)
StrippedNonBlank(items) ==
    IF items = <<>> THEN <<>>
    ELSE IF Strip(Head(items).text) = <<>> THEN StrippedNonBlank(Tail(items))
    ELSE <<Strip(Head(items).text)>> \o StrippedNonBlank(Tail(items))

\* prosecutor.py:137-185  _split_into_claims when it returns
split_into_claims(case_text, has_llm, resp) ==
    IF ~has_llm THEN <<case_text>>
    ELSE IF SplitError(resp) # "" THEN <<case_text>>
    ELSE IF IsListOfStrings(resp) THEN StrippedNonBlank(resp.items)
    ELSE <<case_text>>

\* prosecutor.py:76-80  process, step 1: the claim texts, or the exception
\* that leaves process ("" if none)
ClaimTextsError(auto_claim_splitting, has_llm, resp) ==
    IF auto_claim_splitting /\ has_llm /\ SplitError(resp) # ""
          /\ ~SplitCaught(SplitError(resp))
    THEN SplitError(resp)
    ELSE ""

ClaimTexts(case_text, auto_claim_splitting, has_llm, resp) ==
    IF auto_claim_splitting THEN split_into_claims(case_text, has_llm, resp)
    ELSE <<case_text>>

(* ------------------------------ court.py ------------------------------- *)

\* the store the Court was built on
StorePeriod == 1

\* Court.quorum and Court.concurrency_limit
Quorum == 2

ConcurrencyLimit == 2

\* generate_id() for claim k of the current hear call
ClaimId(k) == trials * MaxClaims + k

NoReport == [status |-> "none", claims |-> <<>>, error_message |-> NoError]

NoTrace == [juries |-> 0, judge |-> 0, inserts |-> 0, failure |-> "none"]

\* what the Reasoner answers a jury of the Court
CourtResponses ==
    {RaiseResponse}
    \cup [kind : {"dict"}, decision : {"no_objection", "suspicious_fact"},
          confidence : {ConfNum(7)}, reason : {"text"}]

\* a stub Reasoner: always the same well-formed answer
StubResponse ==
    [kind |-> "dict", decision |-> "no_objection", confidence |-> ConfNum(7),
     reason |-> "text"]

\* a filter that lets the abstentions through
SuccessfulVotesWithAbstain(vs) ==
    SelectSeq(vs, LAMBDA v : v.decision # "None")

\* court.py:166
SuccessfulVotes(vs) ==
    SelectSeq(vs, LAMBDA v : v.decision # "None" /\ v.decision # "abstain")

\* a constructor that accepts any panel
CourtInitNeverRaises(juries, quorum) == FALSE

\* court.py:58-61  Court.__init__ raises ValueError: juries is len(juries)
CourtInitRaises(juries, quorum) == juries < quorum

\* court.py:50-55  the Court that __init__ leaves when it returns
CourtObject(juries, quorum, verdict_rules) ==
    [juries |-> juries, quorum |-> quorum, verdict_rules |-> verdict_rules]

CourtInit ==
    /\ ~CourtInitRaises(NumJuries, Quorum)
    /\ store = <<>>
    /\ now = 0
    /\ pc = "idle"
    /\ trials = 0
    /\ env = "stub"
    /\ wild = [arbitrary |-> 0, faulty |-> 0]
    /\ claim_texts = <<>>
    /\ claims = <<>>
    /\ idx = 0
    /\ votes = <<>>
    /\ successful_votes = <<>>
    /\ claim_results = <<>>
    /\ mistrial_occurred = FALSE
    /\ partial_failure = FALSE
    /\ error_message = NoError
    /\ report = NoReport
    /\ hear_raised = FALSE
    /\ trace = <<>>

\* the clock advances between trials
Tick ==
    /\ pc = "idle"
    /\ now < MaxTime
    /\ now' = now + 1
    /\ UNCHANGED <<store, pc, trials, env, wild, claim_texts, claims, idx, votes, successful_votes,
                   claim_results, mistrial_occurred, partial_failure, error_message, report,
                   hear_raised, trace>>
    /\ UNCHANGED <<juryVars, runnerVars, callVars, raceVars>>

\* hear is called; Prosecutor.process step 1 has produced claim_texts
Hear(texts) ==
    /\ pc = "idle"
    /\ trials < MaxTrials
    /\ Len(store) + Len(texts) <= MaxStore
    /\ env' = "stub"
    /\ votes' = <<>>
    /\ pc' = "prosecutor"
    /\ claim_texts' = texts
    /\ claims' = <<>>
    /\ idx' = 0
    /\ successful_votes' = <<>>
    /\ claim_results' = <<>>
    /\ mistrial_occurred' = FALSE
    /\ partial_failure' = FALSE
    /\ error_message' = NoError
    /\ report' = NoReport
    /\ hear_raised' = FALSE
    /\ trace' = [k \in 1..Len(texts) |-> NoTrace]
    /\ UNCHANGED <<store, now, trials, wild>>
    /\ UNCHANGED <<juryVars, runnerVars, callVars, raceVars>>

\* what search_similar may return: the entries the index holds (the claim
\* texts here are near-duplicates of each other), or nothing when the index
\* finds none close enough, vector search is off or the index query fails
SimilarResults(rows) == {{}, DOMAIN rows}

\* Prosecutor.process step 2, one claim text: the exact lookup raises (nothing
\* in process or hear handles it), or the claim is classified
ProsecutorLookupRaises ==
    /\ pc = "prosecutor"
    /\ Len(claims) < Len(claim_texts)
    /\ hear_raised' = TRUE
    /\ pc' = "idle"
    /\ trials' = trials + 1
    /\ UNCHANGED <<store, now, env, wild, claim_texts, claims, idx, votes, successful_votes,
                   claim_results, mistrial_occurred, partial_failure, error_message, report,
                   trace>>
    /\ UNCHANGED <<juryVars, runnerVars, callVars, raceVars>>

ProsecutorClassify ==
    /\ pc = "prosecutor"
    /\ Len(claims) < Len(claim_texts)
    /\ LET k == Len(claims) + 1
       IN \E exact \in search_exact(store, claim_texts[k]) :
          \E similar \in SimilarResults(store) :
             /\ Cardinality(similar) <= SimilarTopK
             /\ claims' = Append(claims,
                                 Classify(store, now, ClaimId(k), claim_texts[k], exact,
                                          similar))
    /\ UNCHANGED <<store, now, pc, trials, env, wild, claim_texts, idx, votes, successful_votes, claim_results,
                   mistrial_occurred, partial_failure, error_message, report, hear_raised,
                   trace>>
    /\ UNCHANGED <<juryVars, runnerVars, callVars, raceVars>>

\* a Prosecutor that hands over after the first claim and classifies each
\* further claim only when the loop of hear reaches it
ProsecutorClassifiesAsReached ==
    /\ \/ /\ pc = "prosecutor"
          /\ Len(claims) >= 1
          /\ pc' = "claims"
          /\ idx' = 1
          /\ UNCHANGED claims
       \/ /\ pc = "claims"
          /\ idx > Len(claims)
          /\ Len(claims) < Len(claim_texts)
          /\ LET k == Len(claims) + 1
             IN \E exact \in search_exact(store, claim_texts[k]) :
                \E similar \in SimilarResults(store) :
                   /\ Cardinality(similar) <= SimilarTopK
                   /\ claims' = Append(claims,
                                       Classify(store, now, ClaimId(k), claim_texts[k], exact,
                                                similar))
          /\ UNCHANGED <<pc, idx>>
    /\ UNCHANGED <<store, now, trials, env, wild, claim_texts, votes, successful_votes, claim_results,
                   mistrial_occurred, partial_failure, error_message, report, hear_raised,
                   trace>>
    /\ UNCHANGED <<juryVars, runnerVars, callVars, raceVars>>

\* process returns its report; hear enters the loop over the claims
ProsecutorReturns ==
    /\ pc = "prosecutor"
    /\ Len(claims) = Len(claim_texts)
    /\ pc' = "claims"
    /\ idx' = 1
    /\ UNCHANGED <<store, now, trials, env, wild, claim_texts, claims, votes, successful_votes, claim_results,
                   mistrial_occurred, partial_failure, error_message, report, hear_raised,
                   trace>>
    /\ UNCHANGED <<juryVars, runnerVars, callVars, raceVars>>

\* a cache branch that leaves the verdict to the default rules
CachedClaimResultUnknown(claim) ==
    [claim |-> claim,
     jury_votes |-> <<>>,
     verdict |-> "unknown",
     judge_reasoning |-> "cached",
     objection_count |-> 0,
     objection_ratio |-> ZeroRatio]

\* court.py:95-102  the ClaimResult built from a cache claim
CachedClaimResult(claim) ==
    [claim |-> claim,
     jury_votes |-> <<>>,
     verdict |-> claim.cached_verdict,
     judge_reasoning |-> "cached",
     objection_count |-> 0,
     objection_ratio |-> ZeroRatio]

\* court.py:93-104  a cache claim
CachedResult ==
    /\ pc = "claims"
    /\ idx <= Len(claims)
    /\ claims[idx].source = "cache"
    /\ claim_results' = Append(claim_results, CachedClaimResult(claims[idx]))
    /\ idx' = idx + 1
    /\ UNCHANGED <<store, now, pc, trials, env, wild, claim_texts, claims, votes, successful_votes,
                   mistrial_occurred, partial_failure, error_message, report, hear_raised,
                   trace>>
    /\ UNCHANGED <<juryVars, runnerVars, callVars, raceVars>>

\* court.py:107, 162-163  a claim to try: the units are built and handed to
\* the runner; the collaborators are e while this claim is tried
ConductJuryTrial(e) ==
    /\ pc = "claims"
    /\ idx <= Len(claims)
    /\ claims[idx].source # "cache"
    /\ e = "arbitrary" => wild.arbitrary < MaxWild
    /\ e = "faulty" => wild.faulty < MaxFaulty
    /\ env' = e
    /\ wild' = IF e = "stub" THEN wild ELSE [wild EXCEPT ![e] = @ + 1]
    /\ pc' = "panel"
    /\ RunnerStart(NumJuries, ConcurrencyLimit, "court")
    /\ UNCHANGED <<store, now, trials, claim_texts, claims, idx, votes, successful_votes,
                   claim_results, mistrial_occurred, partial_failure, error_message, report,
                   hear_raised, trace>>
    /\ UNCHANGED <<juryVars, callVars, raceVars>>

PanelAcquire(i) ==
    /\ pc = "panel"
    /\ SemAcquire(i)
    /\ UNCHANGED <<courtVars, juryVars, completion, callVars, raceVars>>

\* get_vote(jury i): jury.vote returns its vote on the Reasoner's answer
PanelVote(i, resp) ==
    /\ pc = "panel"
    /\ resp \in (IF env = "arbitrary" THEN CourtResponses ELSE {StubResponse})
    /\ UnitReturns(i, FinalVote(i, claims[idx].claim_id, resp, 1, FALSE))
    /\ trace' = [trace EXCEPT ![idx].juries = @ + 1]
    /\ UNCHANGED <<store, now, pc, trials, env, wild, claim_texts, claims, idx, votes, successful_votes,
                   claim_results, mistrial_occurred, partial_failure, error_message, report,
                   hear_raised>>
    /\ UNCHANGED <<juryVars, completion, callVars, raceVars>>

\* get_vote(jury i): jury.vote raises
PanelVoteFails(i) ==
    /\ pc = "panel"
    /\ env = "arbitrary"
    /\ IF GetVoteCaught("JuryError") THEN UnitReturns(i, NoneVote) ELSE UnitRaises(i)
    /\ trace' = [trace EXCEPT ![idx].juries = @ + 1]
    /\ UNCHANGED <<store, now, pc, trials, env, wild, claim_texts, claims, idx, votes, successful_votes,
                   claim_results, mistrial_occurred, partial_failure, error_message, report,
                   hear_raised>>
    /\ UNCHANGED <<juryVars, completion, callVars, raceVars>>

\* a quorum test that lets every panel through
QuorumNeverFails(successful) == FALSE

\* court.py:172  len(successful_votes) < self.quorum
QuorumFailed(successful) == Len(successful) < Quorum

\* court.py:172  the same test in a court holding any quorum
QuorumFailedAt(court, successful) == Len(successful) < court.quorum

\* a loop body without its handler
HearCatchesNothing(err) == FALSE

\* court.py:120  "except Exception" around the body of the loop over the claims
HearCaught(err) == err \in Exceptions \cup {"JuryError", "StoreError"}

\* court.py:120-123  something raised while claim idx was processed: the
\* handler sets partial_failure and the loop goes on, or the exception
\* leaves hear
ClaimRaises(err) ==
    /\ IF HearCaught(err)
       THEN /\ partial_failure' = TRUE
            /\ idx' = idx + 1
            /\ pc' = "claims"
            /\ UNCHANGED <<trials, hear_raised>>
       ELSE /\ hear_raised' = TRUE
            /\ pc' = "idle"
            /\ trials' = trials + 1
            /\ UNCHANGED <<partial_failure, idx>>

\* the runner's frame is gone
RunnerReset ==
    /\ r_pc' = "idle"
    /\ r_caller' = "court"
    /\ r_limit' = 1
    /\ semaphore' = 0
    /\ task_state' = <<>>
    /\ task_result' = <<>>
    /\ completion' = <<>>
    /\ r_out' = <<>>

\* court.py:163-177  the runner returns the votes and the quorum is checked;
\* court.py:120-123  or the runner raised, which the loop of hear catches
PanelReturns ==
    /\ pc = "panel"
    /\ RunnerReset
    /\ IF r_pc = "raised"
       THEN /\ ClaimRaises("JuryError")
            /\ trace' = [trace EXCEPT ![idx].failure = "error"]
            /\ env' = "stub"
            /\ UNCHANGED <<votes, successful_votes, mistrial_occurred, error_message>>
       ELSE /\ AllDone
            /\ votes' = Gather(task_result)
            /\ successful_votes' = SuccessfulVotes(votes')
            /\ UNCHANGED <<partial_failure, idx, env, trials, hear_raised>>
            /\ IF QuorumFailed(successful_votes')
               THEN \* court.py:110-113
                    /\ mistrial_occurred' = TRUE
                    /\ error_message' = [kind |-> "quorum",
                                         claim |-> Prefix(claims[idx].text, ErrorTextLen)]
                    /\ trace' = [trace EXCEPT ![idx].failure = "quorum"]
                    /\ pc' = "report"
               ELSE /\ pc' = "judge"
                    /\ UNCHANGED <<mistrial_occurred, error_message, trace>>
    /\ UNCHANGED <<store, now, wild, claim_texts, claims, claim_results, report>>
    /\ UNCHANGED <<juryVars, callVars, raceVars>>

\* court.py:180-184, 115  Judge.verdict returns and the result is appended
JudgeReturns(reasoning) ==
    /\ pc = "judge"
    /\ reasoning = "fallback" => env = "faulty"
    /\ claim_results' = Append(claim_results,
                               JudgeVerdict(claims[idx], successful_votes, reasoning))
    /\ trace' = [trace EXCEPT ![idx].judge = @ + 1]
    /\ pc' = "record"
    /\ UNCHANGED <<store, now, trials, env, wild, claim_texts, claims, idx, votes, successful_votes,
                   mistrial_occurred, partial_failure, error_message, report, hear_raised>>
    /\ UNCHANGED <<juryVars, runnerVars, callVars, raceVars>>

\* court.py:120-123  Judge.verdict raises (the Reasoner's reasoning is no
\* string, so ClaimResult is refused): caught by the loop of hear
JudgeRaises ==
    /\ pc = "judge"
    /\ env = "faulty"
    /\ trace' = [trace EXCEPT ![idx].judge = @ + 1, ![idx].failure = "error"]
    /\ ClaimRaises("ValidationError")
    /\ env' = "stub"
    /\ votes' = <<>>
    /\ successful_votes' = <<>>
    /\ UNCHANGED <<store, now, wild, claim_texts, claims, claim_results,
                   mistrial_occurred, error_message, report>>
    /\ UNCHANGED <<juryVars, runnerVars, callVars, raceVars>>

\* a _record_verdict without its handler
RecordCatchesNothing(err) == FALSE

\* court.py:218  "except Exception" in _record_verdict
RecordCaught(err) == err \in Exceptions \cup {"StoreError"}

\* court.py:63  the domain hear call number case_id is made with: the cases
\* heard alternate between the default domain and another one
CaseDomain(case_id) == IF case_id % 2 = 1 THEN "general" ELSE "finance"

\* an entry without the domain of the case (the entry's default applies) and
\* with the size of the whole panel as its vote count
RecordEntryOfPanel(result, case_id, domain, t) ==
    [entry_id |-> Len(store) + 1,
     claim |-> result.claim.text,
     verdict |-> result.verdict,
     reasoning |-> result.judge_reasoning,
     domain |-> "general",
     case_id |-> case_id,
     timestamp |-> t,
     valid_from |-> NoTime,
     valid_until |-> NoTime,
     jury_votes_count |-> NumJuries,
     objection_count |-> result.objection_count,
     objection_ratio |-> result.objection_ratio]

\* court.py:188-216  _record_verdict: the entry of the result just appended
RecordEntry(result, case_id, domain, t) ==
    [entry_id |-> Len(store) + 1,
     claim |-> result.claim.text,
     verdict |-> result.verdict,
     reasoning |-> result.judge_reasoning,
     domain |-> domain,
     case_id |-> case_id,
     timestamp |-> t,
     valid_from |-> NoTime,
     valid_until |-> NoTime,
     jury_votes_count |-> Len(result.jury_votes),
     objection_count |-> result.objection_count,
     objection_ratio |-> result.objection_ratio]

\* court.py:118, 202-219  _record_verdict: add_entry inserts, or it raises and
\* the handler of _record_verdict only logs
RecordVerdict(fails) ==
    /\ pc = "record"
    /\ fails => env = "faulty"
    /\ IF fails
       THEN /\ trace' = [trace EXCEPT ![idx].failure = "write"]
            /\ IF RecordCaught("StoreError")
               THEN /\ idx' = idx + 1
                    /\ pc' = "claims"
                    /\ UNCHANGED <<partial_failure, trials, hear_raised>>
               ELSE ClaimRaises("StoreError")
            /\ UNCHANGED store
       ELSE /\ store' = add_entry(store,
                                  RecordEntry(claim_results[Len(claim_results)], trials + 1,
                                              CaseDomain(trials + 1), now),
                                  StorePeriod)
            /\ trace' = [trace EXCEPT ![idx].inserts = @ + 1]
            /\ idx' = idx + 1
            /\ pc' = "claims"
            /\ UNCHANGED <<partial_failure, trials, hear_raised>>
    /\ env' = "stub"
    /\ votes' = <<>>
    /\ successful_votes' = <<>>
    /\ UNCHANGED <<now, wild, claim_texts, claims, claim_results, mistrial_occurred,
                   error_message, report>>
    /\ UNCHANGED <<juryVars, runnerVars, callVars, raceVars>>

\* a status that forgets the claims whose processing raised
StatusIgnoringPartial(mistrial, partial) ==
    IF mistrial THEN "mistrial" ELSE "completed"

\* a status in which a processing error outranks a mistrial
StatusPartialFirst(mistrial, partial) ==
    IF partial THEN "partial" ELSE IF mistrial THEN "mistrial" ELSE "completed"

\* court.py:126-130
Status(mistrial, partial) ==
    IF mistrial THEN "mistrial" ELSE IF partial THEN "partial" ELSE "completed"

\* a report that, on a mistrial, drops the results of the case and takes
\* the rows of the case out of the store
ReportRollsBackMistrial ==
    /\ \/ pc = "report"
       \/ pc = "claims" /\ idx > Len(claims)
    /\ report' = [status |-> Status(mistrial_occurred, partial_failure),
                  claims |-> IF mistrial_occurred THEN <<>> ELSE claim_results,
                  error_message |-> error_message]
    /\ store' = IF mistrial_occurred
                THEN SelectSeq(store, LAMBDA row : row.case_id # trials + 1)
                ELSE store
    /\ pc' = "idle"
    /\ trials' = trials + 1
    /\ env' = "stub"
    /\ votes' = <<>>
    /\ successful_votes' = <<>>
    /\ UNCHANGED <<now, wild, claim_texts, claims, idx, claim_results,
                   mistrial_occurred, partial_failure, error_message, hear_raised, trace>>
    /\ UNCHANGED <<juryVars, runnerVars, callVars, raceVars>>

\* court.py:125-141  the loop has ended or was left by break: the report
Report ==
    /\ \/ pc = "report"
       \/ pc = "claims" /\ idx > Len(claims)
    /\ report' = [status |-> Status(mistrial_occurred, partial_failure),
                  claims |-> claim_results,
                  error_message |-> error_message]
    /\ pc' = "idle"
    /\ trials' = trials + 1
    /\ env' = "stub"
    /\ votes' = <<>>
    /\ successful_votes' = <<>>
    /\ UNCHANGED <<store, now, wild, claim_texts, claims, idx, claim_results,
                   mistrial_occurred, partial_failure, error_message, hear_raised, trace>>
    /\ UNCHANGED <<juryVars, runnerVars, callVars, raceVars>>

\* the claim texts of a case
RECURSIVE SeqsUpTo(_, _)
SeqsUpTo(S, n) ==
    IF n = 0 THEN {<<>>}
    ELSE SeqsUpTo(S, n - 1) \cup {Append(q, x) : q \in SeqsUpTo(S, n - 1), x \in S}

Next ==
    \/ Tick
    \/ \E texts \in SeqsUpTo(Texts, MaxClaims) : Hear(texts)
    \/ ProsecutorLookupRaises
    \/ ProsecutorClassify
    \/ ProsecutorReturns
    \/ CachedResult
    \/ \E e \in {"stub", "faulty", "arbitrary"} : ConductJuryTrial(e)
    \/ \E i \in JuryIds : PanelAcquire(i)
    \/ \E i \in JuryIds, resp \in CourtResponses : PanelVote(i, resp)
    \/ \E i \in JuryIds : PanelVoteFails(i)
    \/ PanelReturns
    \/ \E reasoning \in {"llm", "fallback"} : JudgeReturns(reasoning)
    \/ JudgeRaises
    \/ \E fails \in BOOLEAN : RecordVerdict(fails)
    \/ Report

(* ----------------- functions and constructors, called alone ------------ *)

\* the longest rule set of a call
MaxRules == 3

\* the verdict names of a rule set: the keys of the dict, distinct, in its order
VerdictNames == <<"supported", "suspicious", "refuted">>

\* what a verdict name maps to: "default", or a dict with an operator and with
\* or without a value; "between" is an operator calculate_verdict has no test for
RuleBodies ==
    {[operator |-> "default", value |-> ZeroRatio]}
        \cup [operator : {"eq", "lt", "le", "gt", "ge", "between"},
              value : {Ratio(0, 1), Ratio(1, 2), NoValue}]

RuleSets ==
    UNION {{[i \in 1..n |-> [verdict |-> VerdictNames[i],
                             operator |-> body[i].operator,
                             value |-> body[i].value]] :
                body \in [1..n -> RuleBodies]} : n \in 0..MaxRules}

\* the objection ratios a panel of up to NumJuries votes can produce
ObjectionRatios == UNION {{Ratio(c, n) : c \in 0..n} : n \in 1..NumJuries}

CalculateVerdictCalls ==
    [fn : {"calculate_verdict"}, objection_ratio : ObjectionRatios, rules : RuleSets]

\* a call that returned value, and one that raised err
Returned(value) == [raised |-> "none", value |-> value]

Raised(err) == [raised |-> err, value |-> ""]

\* calculate_verdict(objection_ratio, rules); rules is read, never assigned
CalculateVerdict ==
    /\ call.fn = "calculate_verdict"
    /\ ret.raised = "pending"
    /\ ret' = IF RaisesFrom(call.objection_ratio, call.rules, 1)
              THEN Raised("TypeError")
              ELSE Returned(calculate_verdict(call.objection_ratio, call.rules))
    /\ UNCHANGED <<call, courtVars, juryVars, runnerVars, raceVars>>

\* Court(prosecutor, juries, judge, verdict_rules, quorum): juries is the
\* number of juries handed over
CourtCalls ==
    [fn : {"Court"}, juries : 0..NumJuries, quorum : 0..(NumJuries + 1),
     verdict_rules : {rules \in RuleSets : Len(rules) <= 1}]

ConstructCourt ==
    /\ call.fn = "Court"
    /\ ret.raised = "pending"
    /\ ret' = IF CourtInitRaises(call.juries, call.quorum)
              THEN Raised("ValueError")
              ELSE Returned(CourtObject(call.juries, call.quorum, call.verdict_rules))
    /\ UNCHANGED <<call, courtVars, juryVars, runnerVars, raceVars>>

\* Judge(model, verdict_rules)
JudgeCalls == [fn : {"Judge"}, verdict_rules : RuleSets]

ConstructJudge ==
    /\ call.fn = "Judge"
    /\ ret.raised = "pending"
    /\ ret' = IF JudgeInitRaises(call.verdict_rules)
              THEN Raised("ValueError")
              ELSE Returned(JudgeObject(call.verdict_rules))
    /\ UNCHANGED <<call, courtVars, juryVars, runnerVars, raceVars>>

\* the most rows of a store handed to a call
MaxRows == 2

\* stored entries: a claim text, a verdict and a validity window, either end of
\* which may be unset
StoredEntries ==
    [claim : {<<1>>, <<2>>}, verdict : {"supported"},
     valid_from : {NoTime, 1}, valid_until : {NoTime, 1, 2}]

Stores == UNION {[1..n -> StoredEntries] : n \in 0..MaxRows}

\* entry.is_valid(check_date)
IsValidCalls ==
    [fn : {"is_valid"}, entry : StoredEntries, check_date : 0..(MaxTime + 1)]

IsValid ==
    /\ call.fn = "is_valid"
    /\ ret.raised = "pending"
    /\ ret' = Returned(is_valid(call.entry, call.check_date))
    /\ UNCHANGED <<call, courtVars, juryVars, runnerVars, raceVars>>

\* a lookup of claim in the store rows at check_date, with what search_exact
\* and search_similar answer
Lookups(fn) ==
    UNION {[fn : {fn}, rows : {rows}, claim : {<<1>>}, check_date : 0..(MaxTime + 1),
            exact : search_exact(rows, <<1>>), similar : SimilarResults(rows)] :
               rows \in Stores}

\* court_code.search_with_validity(claim, check_date)
SearchWithValidity ==
    /\ call.fn = "search_with_validity"
    /\ ret.raised = "pending"
    /\ ret' = Returned(search_with_validity(call.rows, call.exact, call.similar,
                                            call.check_date))
    /\ UNCHANGED <<call, courtVars, juryVars, runnerVars, raceVars>>

\* prosecutor.process of a one-claim case at the time check_date
ProsecutorProcess ==
    /\ call.fn = "process"
    /\ ret.raised = "pending"
    /\ ret' = Returned(Classify(call.rows, call.check_date, 1, call.claim, call.exact,
                                call.similar))
    /\ UNCHANGED <<call, courtVars, juryVars, runnerVars, raceVars>>

\* the most items of a list the Reasoner answers the splitting request with
MaxItems == 2

\* an item of that list: a string (plain, with a leading blank, all blank) or
\* something that is no string
SplitItems ==
    [str : {TRUE}, text : {<<1>>, <<0, 2>>, <<0>>}] \cup {[str |-> FALSE, text |-> <<>>]}

\* What self._llm.generate hands back for the splitting request: it raises, or
\* a text that as a whole is a JSON list, other JSON, or no JSON; a text that
\* is no JSON holds no bracketed part, one that is a JSON list, or one that is
\* no JSON
SplitResponses ==
    {[kind |-> "raise", json |-> "invalid", bracket |-> "none", items |-> <<>>]}
    \cup [kind : {"text"}, json : {"other"}, bracket : {"none"}, items : {<<>>}]
    \cup [kind : {"text"}, json : {"invalid"}, bracket : {"none", "invalid"}, items : {<<>>}]
    \cup [kind : {"text"}, json : {"list"}, bracket : {"none"},
          items : UNION {[1..n -> SplitItems] : n \in 0..MaxItems}]
    \cup [kind : {"text"}, json : {"invalid"}, bracket : {"list"},
          items : UNION {[1..n -> SplitItems] : n \in 0..MaxItems}]

\* process(case_text), step 1, of a Prosecutor with or without splitting;
\* prosecutor.py:30-34  the Prosecutor has a Reasoner exactly when it splits
ClaimTextsCalls ==
    {c \in [fn : {"claim_texts"}, case_text : {<<1, 0, 2>>},
            auto_claim_splitting : BOOLEAN, has_llm : BOOLEAN,
            response : SplitResponses] : c.has_llm = c.auto_claim_splitting}

ProcessClaimTexts ==
    /\ call.fn = "claim_texts"
    /\ ret.raised = "pending"
    /\ ret' = IF ClaimTextsError(call.auto_claim_splitting, call.has_llm, call.response) # ""
              THEN Raised(ClaimTextsError(call.auto_claim_splitting, call.has_llm,
                                          call.response))
              ELSE Returned(ClaimTexts(call.case_text, call.auto_claim_splitting,
                                       call.has_llm, call.response))
    /\ UNCHANGED <<call, courtVars, juryVars, runnerVars, raceVars>>

\* rule sets with verdict names of their own: with a default, and without
CustomVerdictRules ==
    << [verdict |-> "verified", operator |-> "le", value |-> Ratio(1, 3)],
       [verdict |-> "rejected", operator |-> "default", value |-> ZeroRatio] >>

NoDefaultVerdictRules ==
    << [verdict |-> "supported", operator |-> "eq", value |-> Ratio(0, 1)] >>

\* the votes handed to the Judge: any decisions, from juries 1, 2, ...
VoteOf(i, decision) ==
    [jury_name |-> i, claim_id |-> 1, decision |-> decision, confidence |-> 7,
     reason |-> [kind |-> "llm", cause |-> ""], search_cycles |-> 1]

VoteLists ==
    UNION {{[i \in 1..n |-> VoteOf(i, d[i])] : d \in [1..n -> Decisions]} :
              n \in 0..NumJuries}

\* a claim the Prosecutor found nothing for
NewClaim == Classify(<<>>, 0, 1, <<1>>, 0, {})

\* the store the claim on trial was classified against: one verdict, on
\* another text, in force for ever
PrecedentRows ==
    <<[claim |-> <<2>>, verdict |-> "refuted", valid_from |-> NoTime, valid_until |-> NoTime]>>

\* the claim on trial: search_similar found the entries similar for it
TriedClaim(similar) == Classify(PrecedentRows, 0, 1, <<1>>, 0, similar)

\* court.py:183  the precedents hear hands to the Judge with the claim; they
\* go into the reasoning request (judge.py:144-152) and nowhere else
PrecedentsForJudge(claim) == IF claim.source = "precedent" THEN claim.precedents ELSE {}

\* Court(..., judge=Judge(model, judge_rules), verdict_rules=court_rules) and,
\* at trial time, its verdict on jury_votes for a claim with or without
\* precedents; <<>> is "no rules given"
VerdictCalls ==
    [fn : {"verdict"}, similar : SimilarResults(PrecedentRows),
     court_rules : {<<>>, DefaultVerdictRules, CustomVerdictRules},
     judge_rules : {<<>>, DefaultVerdictRules, CustomVerdictRules, NoDefaultVerdictRules},
     jury_votes : VoteLists, answer : ReasonerAnswers]

RenderVerdict ==
    /\ call.fn = "verdict"
    /\ ret.raised = "pending"
    /\ LET court == CourtObject(NumJuries, Quorum, call.court_rules)
           judge == JudgeOfCourt(court, JudgeObject(call.judge_rules))
           error == VerdictError(judge.verdict_rules, call.jury_votes, call.answer)
           objection_ratio == ObjectionRatio(call.jury_votes)
           verdict == calculate_verdict(objection_ratio, judge.verdict_rules)
       IN ret' = IF error # "" THEN Raised(error)
                 ELSE Returned(JudgeVerdictWith(judge.verdict_rules, TriedClaim(call.similar),
                                                call.jury_votes,
                                                generate_reasoning(call.answer,
                                                                   Len(call.jury_votes),
                                                                   objection_ratio,
                                                                   verdict)))
    /\ UNCHANGED <<call, courtVars, juryVars, runnerVars, raceVars>>

\* the cache branch of hear for a claim the Prosecutor marked cache
CachedResultCalls ==
    [fn : {"cached_result"}, cache_id : 1..MaxRows, cached_verdict : {"supported", "refuted"}]

BuildCachedResult ==
    /\ call.fn = "cached_result"
    /\ ret.raised = "pending"
    /\ ret' = Returned(CachedClaimResult([NewClaim EXCEPT !.source = "cache",
                                                          !.cache_id = call.cache_id,
                                                          !.cached_verdict =
                                                              call.cached_verdict]))
    /\ UNCHANGED <<call, courtVars, juryVars, runnerVars, raceVars>>

\* ---- hear, end to end, with collaborators that answer

\* example_full.py:206  the panel of the example: four juries
ExampleJuries == 4

\* example_full.py:221  and its quorum
ExampleQuorum == 3

\* the votes the runner hands back for a claim: a decision from every jury
PanelVotes(juries) ==
    {[i \in 1..juries |-> VoteOf(i, d[i])] : d \in [1..juries -> Decisions]}

\* the stores of the cases heard: empty, or a verdict on the text <<1>> that
\* is in force for ever or until time 0
HearStores ==
    {<<>>}
    \cup {<<[claim |-> <<1>>, verdict |-> v, valid_from |-> NoTime, valid_until |-> u]>> :
              v \in {"supported", "refuted"}, u \in {NoTime, 0}}

\* what the store answers for every claim text of the case
Found(rows, claim_texts_) ==
    {f \in [DOMAIN claim_texts_ -> [exact : 0..Len(rows), similar : SimilarResults(rows)]] :
        \A k \in DOMAIN claim_texts_ : f[k].exact \in search_exact(rows, claim_texts_[k])}

\* court.py:77  prosecutor.process: the claims of claim_texts from text k on,
\* in order
RECURSIVE ProcessFrom(_, _, _, _, _)
ProcessFrom(rows, t, claim_texts_, found, k) ==
    IF k > Len(claim_texts_) THEN <<>>
    ELSE <<Classify(rows, t, k, claim_texts_[k], found[k].exact, found[k].similar)>>
             \o ProcessFrom(rows, t, claim_texts_, found, k + 1)

\* court.py:90-141  the loop of hear from claim k on and the report it ends
\* in, when the panel answers panel for every claim tried and nothing raises
RECURSIVE HearFrom(_, _, _, _, _, _)
HearFrom(court, judge, the_claims, panel, k, results) ==
    IF k > Len(the_claims)
    THEN [status |-> Status(FALSE, FALSE), claims |-> results, error_message |-> NoError]
    ELSE IF the_claims[k].source = "cache"
    THEN HearFrom(court, judge, the_claims, panel, k + 1,
                  Append(results, CachedClaimResult(the_claims[k])))
    ELSE LET successful == SuccessfulVotes(panel)
         IN IF QuorumFailedAt(court, successful)
            THEN [status |-> Status(TRUE, FALSE), claims |-> results,
                  error_message |-> [kind |-> "quorum",
                                     claim |-> Prefix(the_claims[k].text, ErrorTextLen)]]
            ELSE HearFrom(court, judge, the_claims, panel, k + 1,
                          Append(results,
                                 JudgeVerdictWith(judge.verdict_rules, the_claims[k],
                                                  successful, "llm")))

\* court.hear(case_text) of the example's court at the time check_date
HearCalls ==
    UNION {[fn : {"hear"}, juries : {ExampleJuries},
            quorum : {ExampleQuorum, ExampleJuries},
            rows : {rows}, check_date : {1}, claim_texts : {texts},
            found : Found(rows, texts), panel : PanelVotes(ExampleJuries)] :
               rows \in HearStores, texts \in {<< <<1>>, <<2>> >>, << <<2>>, <<1>> >>}}

HearCase ==
    /\ call.fn = "hear"
    /\ ret.raised = "pending"
    /\ LET court == CourtObject(call.juries, call.quorum, DefaultVerdictRules)
           judge == JudgeOfCourt(court, JudgeObject(<<>>))
           the_claims == ProcessFrom(call.rows, call.check_date, call.claim_texts,
                                     call.found, 1)
       IN ret' = Returned(HearFrom(court, judge, the_claims, call.panel, 1, <<>>))
    /\ UNCHANGED <<call, courtVars, juryVars, runnerVars, raceVars>>

\* ---- search_similar

\* the largest top_k asked for
MaxTopK == 2

\* what the index holds: ids of rows, and an id whose row is gone; distances
\* in tenths, of which 4 is within the threshold of 0.7 and 5 is not
Hits == [id : 1..3, dist : {0, 4, 5}]

\* the most candidates the index answers with
MaxHits == 3

\* what self._chroma_collection.query answers when asked for n_results
\* candidates: it raises, or at most that many, in any order
IndexAnswers(n_results) ==
    {[kind |-> "raise", hits |-> <<>>]}
    \cup UNION {[kind : {"hits"}, hits : [1..n -> Hits]] : n \in 0..Min(n_results, MaxHits)}

\* the rows of the store, by entry_id
SimilarStores ==
    {<<>>,
     <<[entry_id |-> 1, claim |-> <<1>>, verdict |-> "supported"]>>,
     <<[entry_id |-> 1, claim |-> <<1>>, verdict |-> "supported"],
       [entry_id |-> 2, claim |-> <<2>>, verdict |-> "refuted"]>>}

\* court_code.search_similar(claim, top_k, threshold)
SearchSimilarCalls ==
    UNION {[fn : {"search_similar"}, enabled : BOOLEAN, rows : SimilarStores,
            top_k : {top_k}, threshold : {Ratio(7, 10)},
            index : IndexAnswers(top_k * 2)] : top_k \in 1..MaxTopK}

SearchSimilar ==
    /\ call.fn = "search_similar"
    /\ ret.raised = "pending"
    /\ LET error == SimilarError(call.enabled, call.index)
       IN ret' = IF error # "" THEN Raised(error)
                 ELSE Returned(search_similar(call.enabled, call.index, call.rows,
                                              call.top_k, call.threshold))
    /\ UNCHANGED <<call, courtVars, juryVars, runnerVars, raceVars>>

Calls ==
    CalculateVerdictCalls \cup CourtCalls \cup JudgeCalls \cup IsValidCalls
        \cup Lookups("search_with_validity") \cup Lookups("process")
        \cup ClaimTextsCalls \cup VerdictCalls \cup CachedResultCalls \cup HearCalls
        \cup SearchSimilarCalls

CallsNext ==
    \/ CalculateVerdict
    \/ ConstructCourt
    \/ ConstructJudge
    \/ IsValid
    \/ SearchWithValidity
    \/ ProsecutorProcess
    \/ ProcessClaimTexts
    \/ RenderVerdict
    \/ BuildCachedResult
    \/ HearCase
    \/ SearchSimilar

(* ------------- court.py: hear calls at once on one store --------------- *)

\* the calls of hear in flight at once
Racers == 2

\* the one claim text of the case each of them hears
RaceText == <<1>>

NoClaim ==
    [claim_id |-> 0, text |-> <<>>, source |-> "", cache_id |-> 0, cached_verdict |-> "",
     precedents |-> {}]

\* a call of hear that has not begun
HearBegins ==
    [pc |-> "process", claim |-> NoClaim, claim_results |-> <<>>, entry |-> 0,
     report |-> NoReport]

\* no later lookup made
NoLookup == [done |-> FALSE, claim |-> NoClaim, time |-> 0]

RaceIdle == hears = <<>> /\ later = NoLookup

\* what the panel of a call may vote: every jury answers
RacePanels == {vs \in VoteLists : Len(vs) = NumJuries}

\* court.py:77, prosecutor.py:87-124  call p: the Prosecutor looks the text up
\* and classifies it; court.py:93-104, 125-141  a cache claim is answered from
\* the store and the report returned
RaceProcess(p) ==
    /\ hears[p].pc = "process"
    /\ \E exact \in search_exact(store, RaceText) :
       \E similar \in SimilarResults(store) :
          LET claim == Classify(store, now, p, RaceText, exact, similar)
              results == <<CachedClaimResult(claim)>>
          IN /\ Cardinality(similar) <= SimilarTopK
             /\ hears' = [hears EXCEPT
                   ![p] = IF claim.source = "cache"
                          THEN [@ EXCEPT !.pc = "returned", !.claim = claim,
                                         !.claim_results = results,
                                         !.report = [status |-> Status(FALSE, FALSE),
                                                     claims |-> results,
                                                     error_message |-> NoError]]
                          ELSE [@ EXCEPT !.pc = "trial", !.claim = claim]]
    /\ UNCHANGED <<courtVars, juryVars, runnerVars, callVars, later>>

\* court.py:143-186, 106-115  call p: the panel votes and the Judge renders
\* the verdict, or the quorum is missed and the report is a mistrial
RaceTrial(p, panel) ==
    /\ hears[p].pc = "trial"
    /\ LET successful == SuccessfulVotes(panel)
       IN hears' = [hears EXCEPT
             ![p] = IF QuorumFailed(successful)
                    THEN [@ EXCEPT !.pc = "returned",
                                   !.report = [status |-> Status(TRUE, FALSE),
                                               claims |-> <<>>,
                                               error_message |->
                                                   [kind |-> "quorum",
                                                    claim |-> Prefix(RaceText, ErrorTextLen)]]]
                    ELSE [@ EXCEPT !.pc = "record",
                                   !.claim_results =
                                       <<JudgeVerdict(hears[p].claim, successful, "llm")>>]]
    /\ UNCHANGED <<courtVars, juryVars, runnerVars, callVars, later>>

\* court.py:118, 188-219, 125-141  call p: _record_verdict inserts the entry,
\* or add_entry raises and the handler only logs; then the report
RaceRecord(p, fails) ==
    /\ hears[p].pc = "record"
    /\ ~fails \/ RecordCaught("StoreError")
    /\ store' = IF fails THEN store
                ELSE add_entry(store,
                               RecordEntry(hears[p].claim_results[1], p, CaseDomain(p), now),
                               StorePeriod)
    /\ hears' = [hears EXCEPT
          ![p] = [@ EXCEPT !.pc = "returned",
                           !.entry = IF fails THEN 0 ELSE Len(store'),
                           !.report = [status |-> Status(FALSE, FALSE),
                                       claims |-> hears[p].claim_results,
                                       error_message |-> NoError]]]
    /\ UNCHANGED <<now, pc, trials, env, wild, claim_texts, claims, idx, votes,
                   successful_votes, claim_results, mistrial_occurred, partial_failure,
                   error_message, report, hear_raised, trace>>
    /\ UNCHANGED <<juryVars, runnerVars, callVars, later>>

\* prosecutor.py:87-124  every call has returned; the text is looked up again
LaterLookup ==
    /\ hears # <<>>
    /\ \A p \in DOMAIN hears : hears[p].pc = "returned"
    /\ ~later.done
    /\ \E exact \in search_exact(store, RaceText) :
       \E similar \in SimilarResults(store) :
          /\ Cardinality(similar) <= SimilarTopK
          /\ later' = [done |-> TRUE,
                       claim |-> Classify(store, now, Racers + 1, RaceText, exact, similar),
                       time |-> now]
    /\ UNCHANGED <<courtVars, juryVars, runnerVars, callVars, hears>>

RaceNext ==
    \/ Tick
    \/ \E p \in 1..Racers : RaceProcess(p)
    \/ \E p \in 1..Racers : \E panel \in RacePanels : RaceTrial(p, panel)
    \/ \E p \in 1..Racers : \E fails \in BOOLEAN : RaceRecord(p, fails)
    \/ LaterLookup

(* -------------------------- specifications ----------------------------- *)

\* a Court just constructed: no jury and no runner at work
Init == CourtInit /\ JuryIdle /\ RunnerIdle /\ CallIdle /\ RaceIdle

Spec == Init /\ [][Next]_vars

JuryAloneInit == CourtInit /\ JuryInit /\ RunnerIdle /\ CallIdle /\ RaceIdle

SpecJury == JuryAloneInit /\ [][JuryNext]_vars

\* every request the jury awaits is answered or raises: the vote goes on
SpecJuryFair == SpecJury /\ WF_vars(JuryNext)

\* Racers calls of hear begin on the empty store
RaceInit ==
    /\ CourtInit
    /\ JuryIdle
    /\ RunnerIdle
    /\ CallIdle
    /\ hears = [p \in 1..Racers |-> HearBegins]
    /\ later = NoLookup

SpecRace == RaceInit /\ [][RaceNext]_vars

\* the answers a stub Reasoner gives to a final decision request: it raises,
\* no object, a well-formed vote, or one whose confidence is no number
StubFinalResponses ==
    {RaiseResponse, NonDictResponse, StubResponse,
     [StubResponse EXCEPT !.decision = "suspicious_fact"],
     [StubResponse EXCEPT !.confidence = ConfBad]}

JuryTwiceNext ==
    \/ Vote
    \/ \E out \in RetrieveOutcomes : SimpleRetrieve(out)
    \/ \E resp \in StubFinalResponses : SimpleDecide(resp)
    \/ \E out \in RetrieveOutcomes : SteelSearch(out)
    \/ \E r \in SufficiencyResponses : SteelThink(r)
    \/ \E resp \in StubFinalResponses : SteelDecide(resp)
    \/ VoteAgain

\* two calls of vote on one claim, with deterministic stubs
JuryTwiceInit ==
    CourtInit /\ JuryStart /\ stub = DeterministicStub /\ RunnerIdle /\ CallIdle /\ RaceIdle

SpecJuryTwice == JuryTwiceInit /\ [][JuryTwiceNext]_vars

RunnerInit ==
    /\ CourtInit
    /\ RaceIdle
    /\ JuryIdle
    /\ CallIdle
    /\ \E n \in 1..NumJuries, limit \in 1..NumJuries, caller \in {"court", "direct"} :
          /\ r_pc = "running"
          /\ r_caller = caller
          /\ r_limit = limit
          /\ semaphore = limit
          /\ task_state = [i \in 1..n |-> "pending"]
          /\ task_result = [i \in 1..n |-> NoResult]
          /\ completion = <<>>
          /\ r_out = <<>>

SpecRunner == RunnerInit /\ [][RunnerNext]_vars

\* court.py:55, 58-61  the concurrency_limit of a Court that was constructed:
\* __init__ stores the argument and tests only len(juries) against quorum;
\* helpers.py:25  asyncio.Semaphore takes every value from 0 on
CourtLimits == 0..NumJuries

\* the runner as hear starts it for a panel of n juries, in a Court holding
\* any concurrency_limit its constructor accepts
RunnerOfCourtInit ==
    /\ CourtInit
    /\ RaceIdle
    /\ JuryIdle
    /\ CallIdle
    /\ \E n \in 1..NumJuries, limit \in CourtLimits :
          /\ r_pc = "running"
          /\ r_caller = "court"
          /\ r_limit = limit
          /\ semaphore = limit
          /\ task_state = [i \in 1..n |-> "pending"]
          /\ task_result = [i \in 1..n |-> NoResult]
          /\ completion = <<>>
          /\ r_out = <<>>

\* every jury.vote returns or raises, and the event loop runs what is ready:
\* a unit that can enter the semaphore does, a unit that runs ends, gather
\* returns once it can
SpecRunnerFair == RunnerOfCourtInit /\ [][RunnerNext]_vars /\ WF_vars(RunnerNext)

\* one call, with its arguments drawn from Calls
CallsInit ==
    CourtInit /\ JuryIdle /\ RunnerIdle /\ RaceIdle /\ call \in Calls /\ ret = NoRet

SpecCalls == CallsInit /\ [][CallsNext]_vars

(* ------------------------ properties: Court.hear ----------------------- *)

\* the votes of vs that are neither failed (None) nor abstain, counted
Substantive(vs) ==
    Cardinality({i \in DOMAIN vs : vs[i] # NoneVote /\ vs[i].decision # "abstain"})

\* the votes of vs that were cast (not None), and the abstains among them
Cast(vs) == Cardinality({i \in DOMAIN vs : vs[i] # NoneVote})

Abstains(vs) == Cardinality({i \in DOMAIN vs : vs[i].decision = "abstain"})

\* claim k of the case has a result in results
HasResult(results, k) ==
    \E j \in DOMAIN results : results[j].claim.claim_id = claims[k].claim_id

\* nothing after the panel was done for claim k, and nothing at all for the
\* claims after it
StoppedAt(results, k) ==
    /\ ~HasResult(results, k)
    /\ trace[k].judge = 0
    /\ trace[k].inserts = 0
    /\ \A m \in (k + 1)..Len(claims) : trace[m] = NoTrace /\ ~HasResult(results, m)

\* C1: for a claim that is tried (not a cache hit), if the votes that are
\* neither None nor abstain are fewer than the quorum, then the Judge is never
\* reached; hear leaves the loop with mistrial set and an error message that
\* carries the claim's text (its first 50 characters); the claim gets no
\* ClaimResult and no store row, no later claim of the case gets a jury or a
\* result, and the report has status mistrial.
C1_QuorumFailureIsMistrial ==
    /\ pc \in {"judge", "record"} => Substantive(votes) >= Quorum
    /\ mistrial_occurred => pc \in {"report", "idle"}
    /\ pc = "report" =>
          /\ Substantive(votes) < Quorum
          /\ claims[idx].source # "cache"
          /\ mistrial_occurred
          /\ error_message = [kind |-> "quorum",
                              claim |-> Prefix(claims[idx].text, ErrorTextLen)]
          /\ StoppedAt(claim_results, idx)
    /\ (pc = "idle" /\ mistrial_occurred) =>
          /\ report.status = "mistrial"
          /\ report.error_message = [kind |-> "quorum",
                                     claim |-> Prefix(claims[idx].text, ErrorTextLen)]
          /\ StoppedAt(report.claims, idx)
    /\ (pc = "idle" /\ report.status = "mistrial") => mistrial_occurred

\* C1 happens: the first of two claims, a long one, missed the quorum and the
\* second, which was to be tried too, was left alone; the report is out
C1_Witness ==
    /\ pc = "idle"
    /\ report.status = "mistrial"
    /\ Len(claims) = 2
    /\ idx = 1
    /\ claims[1].text = LongText
    /\ claims[2].source # "cache"
    /\ trace[1].juries = NumJuries

\* C2: a claim classified as source = cache, once the loop has passed it,
\* has a ClaimResult with no votes, objection count 0 and the verdict of the
\* store row it was matched to; no jury and no Judge is invoked for it and no
\* store row is written for it.
C2_CacheShortCircuit ==
    \A k \in DOMAIN claims :
        claims[k].source = "cache" =>
            /\ trace[k] = NoTrace
            /\ claims[k].cache_id \in DOMAIN store
            /\ claims[k].cached_verdict = store[claims[k].cache_id].verdict
            /\ (pc \in {"claims", "panel", "judge", "record", "report", "idle"} /\ k < idx) =>
                  \E j \in DOMAIN claim_results :
                      /\ claim_results[j].claim = claims[k]
                      /\ claim_results[j].jury_votes = <<>>
                      /\ claim_results[j].objection_count = 0
                      /\ claim_results[j].objection_ratio = ZeroRatio
                      /\ claim_results[j].verdict = claims[k].cached_verdict
            /\ (pc = "idle" /\ ~hear_raised /\ k < idx) =>
                  \E j \in DOMAIN report.claims :
                      /\ report.claims[j].claim = claims[k]
                      /\ report.claims[j].jury_votes = <<>>
                      /\ report.claims[j].verdict = claims[k].cached_verdict

\* C2 happens: a case whose second claim was a cache hit on a row with an
\* objection verdict has been reported
C2_Witness ==
    /\ pc = "idle"
    /\ report.status = "completed"
    /\ Len(report.claims) = 2
    /\ report.claims[2].claim.source = "cache"
    /\ report.claims[2].verdict # "supported"
    /\ report.claims[1].claim.source # "cache"

\* C3: Court.hear never raises: whatever fails, every call of hear that has
\* ended has returned a CaseReport.
C3_HearNeverRaises ==
    /\ ~hear_raised
    /\ (pc = "idle" /\ trials > 0) => report # NoReport

\* C7: abstain votes count neither toward the quorum nor toward the objection
\* statistics. For a panel returning n cast votes of which k are abstain, the
\* quorum test is on n - k; the ClaimResult's vote list is exactly the n - k
\* non-abstain votes, in panel order; objection_count is the number of
\* objections among them and objection_ratio is objection_count / (n - k).
C7_AbstainExcluded ==
    /\ pc \in {"judge", "record", "report"} =>
          /\ Len(successful_votes) = Cast(votes) - Abstains(votes)
          /\ (pc = "report") = (Cast(votes) - Abstains(votes) < Quorum)
    /\ pc = "record" =>
          LET r == claim_results[Len(claim_results)]
              kept == SelectSeq(votes, LAMBDA v : v # NoneVote /\ v.decision # "abstain")
          IN /\ r.jury_votes = kept
             /\ Len(r.jury_votes) = Cast(votes) - Abstains(votes)
             /\ \A i \in DOMAIN r.jury_votes : r.jury_votes[i].decision # "abstain"
             /\ r.objection_count =
                   Cardinality({i \in DOMAIN votes :
                                  votes[i].decision \in {"suspicious_fact", "reasonable_doubt"}})
             /\ r.objection_ratio = Ratio(r.objection_count, Cast(votes) - Abstains(votes))

\* C7 happens: of three cast votes one was an abstain and one an objection,
\* and the Judge gave the result
C7_Witness ==
    /\ pc = "record"
    /\ Cast(votes) = NumJuries
    /\ Abstains(votes) = 1
    /\ claim_results[Len(claim_results)].objection_count = 1

\* C10: whenever, at lookup time, the store holds a row with the claim's text
\* that is valid, Prosecutor.process classifies the claim as source = cache
\* with the verdict of such a row -- also when several rows share the text.
C10_ValidExactIsCache ==
    pc = "prosecutor" =>
        \A k \in DOMAIN claims :
            LET valid_rows == {r \in DOMAIN store : /\ store[r].claim = claims[k].text
                                                     /\ is_valid(store[r], now)}
            IN valid_rows # {} =>
                  /\ claims[k].source = "cache"
                  /\ \E r \in valid_rows : claims[k].cached_verdict = store[r].verdict

\* some claim of the case ended with this kind of failure
SomeFailure(kind) == \E k \in DOMAIN trace : trace[k].failure = kind

\* hear has returned a report
Reported == pc = "idle" /\ report # NoReport

\* every claim after k that the loop could reach (no quorum failure before
\* it) was processed: it has a result or it failed itself
FollowingProcessed(k) ==
    \A m \in (k + 1)..Len(claims) :
        (\A j \in 1..(m - 1) : trace[j].failure # "quorum") =>
            \/ HasResult(report.claims, m)
            \/ trace[m].failure \in {"quorum", "error"}

\* C11: the status of the report is mistrial iff some claim missed the quorum
\* (also when an earlier claim raised); partial iff no claim missed the quorum
\* and some claim raised a processing error; completed iff neither happened,
\* and then every claim has its result in the report.
C11_StatusOfReport ==
    Reported =>
        /\ (report.status = "mistrial") = SomeFailure("quorum")
        /\ (report.status = "partial") = (~SomeFailure("quorum") /\ SomeFailure("error"))
        /\ (report.status = "completed") = (~SomeFailure("quorum") /\ ~SomeFailure("error"))
        /\ report.status = "completed" =>
              \A k \in DOMAIN claims : HasResult(report.claims, k)

\* C11 happens: the Judge raised on the first claim, the second claim missed
\* the quorum, and the report is a mistrial
C11_Witness ==
    /\ Reported
    /\ report.status = "mistrial"
    /\ Len(claims) = 2
    /\ trace[1].failure = "error"
    /\ trace[2].failure = "quorum"

\* C12: when processing a claim raises (the Judge raises), hear catches it:
\* nothing leaves hear, the claim has no result in the report and no store
\* row, every following claim is still processed, and the status is partial
\* (mistrial if a later claim misses the quorum).
C12_ClaimErrorIsPartial ==
    \A k \in DOMAIN trace :
        trace[k].failure = "error" =>
            /\ ~hear_raised
            /\ partial_failure
            /\ ~HasResult(claim_results, k)
            /\ trace[k].inserts = 0
            /\ pc \in {"claims", "panel", "judge", "record", "report", "idle"}
            /\ idx > k
            /\ Reported =>
                  /\ ~HasResult(report.claims, k)
                  /\ report.status = IF SomeFailure("quorum") THEN "mistrial" ELSE "partial"
                  /\ FollowingProcessed(k)

\* C12 happens: the Judge raised on the first of two claims, the second got
\* its verdict, and the report is partial
C12_Witness ==
    /\ Reported
    /\ report.status = "partial"
    /\ Len(claims) = 2
    /\ trace[1].failure = "error"
    /\ trace[1].judge = 1
    /\ HasResult(report.claims, 2)
    /\ trace[2].inserts = 1

\* C13: when the store's insert fails after the verdict, the claim's result
\* stays as the Judge returned it, the failure sets neither partial_failure
\* nor anything else the status depends on, nothing leaves hear, and the
\* following claims are processed.
C13_WriteFailureIsHarmless ==
    \A k \in DOMAIN trace :
        trace[k].failure = "write" =>
            /\ ~hear_raised
            /\ trace[k].inserts = 0
            /\ partial_failure = SomeFailure("error")
            /\ \E j \in DOMAIN claim_results :
                  /\ claim_results[j].claim = claims[k]
                  /\ claim_results[j] = JudgeVerdict(claims[k], claim_results[j].jury_votes,
                                                     claim_results[j].judge_reasoning)
            /\ idx > k
            /\ Reported =>
                  /\ HasResult(report.claims, k)
                  /\ report.claims = claim_results
                  /\ report.status = IF SomeFailure("quorum") THEN "mistrial"
                                     ELSE IF SomeFailure("error") THEN "partial"
                                     ELSE "completed"
                  /\ FollowingProcessed(k)

\* C13 happens: the insert failed for the first of two claims, both have
\* their results, and the report is completed
C13_Witness ==
    /\ Reported
    /\ report.status = "completed"
    /\ Len(report.claims) = 2
    /\ trace[1].failure = "write"
    /\ trace[2].inserts = 1

\* the case hear is at, or heard last
CaseId == IF pc = "idle" THEN trials ELSE trials + 1

\* the store rows written for that case, in order
CaseRows == SelectSeq(store, LAMBDA row : row.case_id = CaseId)

\* the position in the case of the claim of result r
ClaimOf(r) == CHOOSE k \in DOMAIN claims : claims[k].claim_id = r.claim.claim_id

\* the results of the tried claims of the case whose store write did not fail
PersistedResults ==
    SelectSeq(claim_results,
              LAMBDA r : r.claim.source # "cache" /\ trace[ClaimOf(r)].failure # "write")

\* C24 as stated: every claim that was tried by the panel and got its verdict
\* has exactly one store row inserted for it.
C24_EveryVerdictInserts ==
    \A k \in DOMAIN claims :
        (idx > k /\ claims[k].source # "cache" /\ HasResult(claim_results, k)) =>
            trace[k].inserts = 1

\* C24: for every claim that is tried by the panel and reaches quorum, hear
\* inserts after the verdict exactly one store entry, unless the store write
\* fails (then none); the entry carries the claim text, verdict, reasoning,
\* domain, case id and vote statistics of that ClaimResult, with a vote count of
\* at least the quorum. Claims served from cache, claims that missed the quorum
\* and claims that raised insert nothing.
C24_OneEntryPerVerdict ==
    /\ \A k \in DOMAIN claims :
          /\ trace[k].inserts <= 1
          /\ (claims[k].source = "cache" \/ trace[k].failure # "none") =>
                trace[k].inserts = 0
          /\ (idx > k /\ claims[k].source # "cache" /\ trace[k].failure = "none") =>
                trace[k].inserts = 1 /\ HasResult(claim_results, k)
    /\ (pc # "prosecutor" /\ ~hear_raised /\ trials + Len(claim_texts) > 0) =>
          /\ Len(CaseRows) <= Len(PersistedResults)
          /\ pc # "record" => Len(CaseRows) = Len(PersistedResults)
          /\ \A j \in DOMAIN CaseRows :
                LET row == CaseRows[j]
                    result == PersistedResults[j]
                IN /\ row.claim = result.claim.text
                   /\ row.verdict = result.verdict
                   /\ row.reasoning = result.judge_reasoning
                   /\ row.domain = CaseDomain(CaseId)
                   /\ row.jury_votes_count = Len(result.jury_votes)
                   /\ row.jury_votes_count >= Quorum
                   /\ row.objection_count = result.objection_count
                   /\ row.objection_ratio = result.objection_ratio

\* the second hear tried two claims: the first got its entry, with the
\* domain of that case, the second missed the quorum and got none
C24_Witness ==
    /\ Reported
    /\ trials = 2
    /\ Len(claims) = 2
    /\ trace[1].inserts = 1
    /\ trace[2].failure = "quorum"
    /\ trace[2].inserts = 0
    /\ Len(CaseRows) = 1
    /\ CaseRows[1].domain = "finance"

(* --------------- properties: run_with_concurrency_limit ---------------- *)

Running == {i \in DOMAIN task_state : task_state[i] = "running"}

\* C8: run_with_concurrency_limit never has more than limit units executing
\* at the same instant, and the list it returns has one result per unit with
\* result i that of unit i, whatever the order the units ended in; with the
\* units built from the jury list, vote i is the vote of jury i.
C8_BoundedAndPositional ==
    /\ Cardinality(Running) <= r_limit
    /\ r_pc = "returned" =>
          /\ Len(r_out) = Len(task_state)
          /\ \A k \in DOMAIN completion :
                completion[k].ok => r_out[completion[k].unit] = UnitValue(completion[k].unit)
          /\ \A i \in DOMAIN r_out : r_out[i] # NoneVote => r_out[i].jury_name = i

\* C8 happens: more units than permits, the first unit was not the first to
\* end, and the list was returned
C8_Witness ==
    /\ r_pc = "returned"
    /\ r_limit < Len(r_out)
    /\ 1 < r_limit
    /\ completion[1].unit # 1
    /\ \A k \in DOMAIN completion : completion[k].ok

SomeUnitFailed == \E k \in DOMAIN completion : ~completion[k].ok

C4_VoteNeverRaises ==
    /\ ~j_raised
    /\ j_pc # "raised"
    /\ j_pc = "done" =>
          /\ j_vote # NoneVote
          /\ j_calls.final = 1
          /\ j_vote.jury_name = JuryName
          /\ j_vote.claim_id = j_claim.claim_id

\* the final decision request has been answered with resp
FinalAnswered(kind) == j_calls.final = 1 /\ j_final.kind = kind

\* C5: when the Reasoner's final decision call raises, Jury.vote returns a
\* vote with decision abstain, confidence 0.0 and a reason that describes the
\* failure ("Error during [STEEL] evaluation: <the exception>"), in simple and
\* in STEEL mode.
C5_FinalRaiseAbstains ==
    FinalAnswered("raise") =>
        /\ j_pc = "done"
        /\ j_vote.decision = "abstain"
        /\ j_vote.confidence = 0
        /\ j_vote.reason.kind = IF j_cfg.search_cycle_mode /\ j_cfg.has_reference
                                THEN "Error during STEEL evaluation"
                                ELSE "Error during evaluation"
        /\ j_vote.reason.cause = "LLMError"

\* C5 happens: a STEEL jury went through all its search cycles, then the final
\* decision call raised and the vote was returned
C5_Witness ==
    /\ FinalAnswered("raise")
    /\ j_pc = "done"
    /\ j_cfg.search_cycle_mode /\ j_cfg.has_reference
    /\ search_cycle = MaxCycleMax
    /\ j_vote.search_cycles = MaxCycleMax

\* a parsed JSON object that lacks decision, confidence or reason, or whose
\* decision is outside the four values, or whose confidence is outside [0, 1]
Malformed(resp) ==
    /\ resp.kind = "dict"
    /\ \/ resp.decision = "missing"
       \/ resp.confidence.kind = "missing"
       \/ resp.reason = "missing"
       \/ resp.decision \notin Decisions \cup {"missing"}
       \/ resp.confidence.kind = "num" /\ resp.confidence.val \notin 0..10

\* C6: when the final decision response is malformed structured output,
\* Jury.vote returns an abstain vote with confidence 0.0, never a substantive
\* (objection or no_objection) vote.
C6_MalformedAbstains ==
    (j_calls.final = 1 /\ Malformed(j_final)) =>
        /\ j_pc = "done"
        /\ j_vote.decision = "abstain"
        /\ j_vote.confidence = 0

\* the one retrieval of _vote_simple, or a retrieval of the STEEL loop, failed
\* and the handler around it caught the failure
RetrievalFailed == j_calls.failed = "retrieve"

Called(fn) == call.fn = fn /\ ret.raised # "pending"

\* -1, 0, 1 as the ratio a is below, at, above the ratio b
Compare(a, b) ==
    IF a.num * b.den < b.num * a.den THEN -1
    ELSE IF a.num * b.den > b.num * a.den THEN 1 ELSE 0

\* the signs of Compare(ratio, value) under which each operator's test holds
OperatorSigns ==
    [eq |-> {0}, lt |-> {-1}, le |-> {-1, 0}, gt |-> {1}, ge |-> {0, 1}]

\* the operator rules of rules whose test holds of ratio r, by position
HoldingRules(rules, r) ==
    {i \in DOMAIN rules :
        /\ rules[i].operator \in DOMAIN OperatorSigns
        /\ rules[i].value # NoValue
        /\ Compare(r, rules[i].value) \in OperatorSigns[rules[i].operator]}

DefaultRules(rules) == {i \in DOMAIN rules : rules[i].operator = "default"}

Least(S) == CHOOSE i \in S : \A k \in S : i <= k

Greatest(S) == CHOOSE i \in S : \A k \in S : k <= i

\* C14: calculate_verdict returns the verdict of the first rule, in the
\* configured order, whose operator test (eq, lt, le, gt, ge) holds of the
\* ratio; the default verdict only if no operator rule holds, wherever the
\* default stands in the order; and "unknown" if there is neither.
C14_FirstMatchThenDefault ==
    Called("calculate_verdict") /\ ret.raised = "none" =>
        LET holding == HoldingRules(call.rules, call.objection_ratio)
            defaults == DefaultRules(call.rules)
        IN ret.value =
              IF holding # {} THEN call.rules[Least(holding)].verdict
              ELSE IF defaults # {} THEN call.rules[Greatest(defaults)].verdict
              ELSE "unknown"

\* a default standing first, an operator rule after it that holds, and the
\* operator rule's verdict returned
C14_Witness ==
    /\ Called("calculate_verdict")
    /\ Len(call.rules) >= 2
    /\ call.rules[1].operator = "default"
    /\ 2 \in HoldingRules(call.rules, call.objection_ratio)
    /\ ret.value = call.rules[2].verdict

\* every operator rule of rules carries a threshold
Thresholded(rules) ==
    \A i \in DOMAIN rules : rules[i].operator # "default" => rules[i].value # NoValue

C16_TooFewJuriesFailsConstruction ==
    Called("Court") =>
        /\ call.juries < call.quorum => ret.raised = "ValueError"
        /\ ret.raised = "none" => ret.value.juries >= ret.value.quorum

\* a Court asked for with one jury fewer than the quorum, and refused
C16_Witness ==
    /\ Called("Court")
    /\ call.juries + 1 = call.quorum
    /\ ret.raised = "ValueError"

\* rules holds an operator outside eq, lt, le, gt, ge
HasUnknownOperator(rules) ==
    \E i \in DOMAIN rules :
        rules[i].operator \notin {"default", "eq", "lt", "le", "gt", "ge"}

\* C17: a verdict-rule configuration with an operator outside eq, lt, le, gt,
\* ge is rejected when the Judge or the Court is constructed: the constructor
\* does not return an object holding such a rule set.
C17_UnknownOperatorRejected ==
    Called("Judge") \/ Called("Court") =>
        (HasUnknownOperator(call.verdict_rules) => ret.raised # "none")

\* the time t lies in the validity window of entry e, both ends included
InWindow(e, t) ==
    /\ e.valid_from = NoTime \/ e.valid_from <= t
    /\ e.valid_until = NoTime \/ t <= e.valid_until

\* C18: is_valid(t) is true exactly when (valid_from is unset or valid_from <=
\* t) and (valid_until is unset or t <= valid_until), so an entry is valid at
\* its valid_until and no longer at the next instant; and neither the
\* Prosecutor nor search_with_validity gives an entry outside its window as
\* cache hit or as precedent.
C18_ValidityWindow ==
    /\ Called("is_valid") => (ret.value <=> InWindow(call.entry, call.check_date))
    /\ Called("search_with_validity") =>
          /\ ret.value.exact # 0 => InWindow(call.rows[ret.value.exact], call.check_date)
          /\ \A p \in ret.value.similar : InWindow(call.rows[p], call.check_date)
    /\ Called("process") =>
          /\ ret.value.source = "cache" =>
                InWindow(call.rows[ret.value.cache_id], call.check_date)
          /\ \A p \in ret.value.precedents : InWindow(call.rows[p], call.check_date)

\* the Prosecutor was handed an entry that expired the instant before and one
\* that expires now, and attached only the second as precedent
C18_Witness ==
    /\ Called("process")
    /\ call.exact = 0
    /\ call.similar = {1, 2}
    /\ call.rows[1].valid_until = call.check_date - 1
    /\ call.rows[2].valid_until = call.check_date
    /\ ret.value.source = "precedent"
    /\ ret.value.precedents = {2}

(* -------------------- properties: the STEEL loop ----------------------- *)

\* the jury votes with the STEEL loop
Steel == j_cfg.search_cycle_mode /\ j_cfg.has_reference

\* the sufficiency answer r is true
SaysSufficient(r) ==
    \/ r.kind = "dict" /\ r.sufficient \in {"true", "str_yes"}
    \/ r.kind = "str" /\ r.sufficient = "str_yes"

\* the sufficiency answer r produced a new query
GivesNewQuery(r) == r.kind = "dict" /\ r.new_query # <<>>

\* the loop is over and the final decision is next or made
LoopOver == j_pc \in {"final", "done"}

\* C19: the STEEL loop, run only when search_cycle_mode is set and a reference
\* is there, goes on to another cycle only after an answer that is not
\* sufficient and gives a new query, and only below search_cycle_max cycles; it
\* is over only when the answer was sufficient, or the cycle produced no new
\* query, or search_cycle_max cycles were performed. Retrieval calls never exceed
\* search_cycle_max, and the vote's search_cycles is the number of cycles started.
C19_LoopEndsExactlyWhen ==
    /\ ~Steel => search_cycle = 0 /\ j_calls.sufficiency = 0
    /\ Steel =>
          /\ j_calls.retrieve <= j_cfg.search_cycle_max
          /\ j_calls.retrieve = search_cycle
          /\ j_pc = "search" =>
                /\ search_cycle < j_cfg.search_cycle_max
                /\ search_cycle > 0 =>
                      /\ j_calls.sufficiency = search_cycle
                      /\ ~SaysSufficient(j_sufficiency)
                      /\ GivesNewQuery(j_sufficiency)
          /\ LoopOver =>
                \/ search_cycle >= j_cfg.search_cycle_max
                \/ j_calls.sufficiency < search_cycle
                \/ SaysSufficient(j_sufficiency)
                \/ ~GivesNewQuery(j_sufficiency)
          /\ j_pc = "done" => j_vote.search_cycles = search_cycle

\* a jury allowed two cycles was told, after the first, that the evidence is
\* sufficient and what to search next, and voted after that one cycle
C19_Witness ==
    /\ Steel
    /\ j_pc = "done"
    /\ j_cfg.search_cycle_max = 2
    /\ SaysSufficient(j_sufficiency)
    /\ GivesNewQuery(j_sufficiency)
    /\ j_calls.retrieve = 1
    /\ j_vote.search_cycles = 1

\* C20: however the STEEL loop ends (sufficient, no new query, maximum
\* reached, retrieval failure, sufficiency-check failure), the jury then makes
\* exactly one final decision request, with all the evidence collected so far
\* (possibly none); after a retrieval failure it makes no further retrieval
\* and no further sufficiency request.
C20_OneFinalRequestWithAllEvidence ==
    /\ [](Steel =>
            /\ j_calls.final <= 1
            /\ j_pc = "final" => j_calls.final = 0
            /\ j_pc = "done" => j_calls.final = 1 /\ final_evidence = collected_evidence
            /\ j_calls.failed # "none" => LoopOver
            /\ j_calls.failed = "retrieve" =>
                  /\ j_calls.retrieve = search_cycle
                  /\ j_calls.sufficiency = search_cycle - 1)
    /\ (Steel /\ j_pc = "final") ~> (j_pc = "done" /\ j_calls.final = 1)

\* the second retrieval failed, and the one final request carried the evidence
\* of the first
C20_Witness ==
    /\ Steel
    /\ j_pc = "done"
    /\ j_calls = [retrieve |-> 2, sufficiency |-> 1, final |-> 1, failed |-> "retrieve"]
    /\ final_evidence = <<j_claim.text>>

ValidExactRows(rows, text, t) ==
    {i \in DOMAIN rows : rows[i].claim = text /\ InWindow(rows[i], t)}

\* C22: Prosecutor.process classifies a claim text as exactly one of: cache,
\* when a valid exact match exists in the store, with cache_id and
\* cached_verdict set from it; precedent, when there is no valid exact match
\* and at least one valid similar precedent, all attached precedents being
\* valid at lookup time; or new, when there is neither.
C22_ClassifiedByValidity ==
    Called("process") =>
        LET valid_exact == ValidExactRows(call.rows, call.claim, call.check_date)
            valid_similar == {p \in call.similar : InWindow(call.rows[p], call.check_date)}
            claim == ret.value
        IN /\ claim.text = call.claim
           /\ claim.source =
                 IF valid_exact # {} THEN "cache"
                 ELSE IF valid_similar # {} THEN "precedent" ELSE "new"
           /\ claim.source = "cache" =>
                 /\ claim.cache_id \in valid_exact
                 /\ claim.cached_verdict = call.rows[claim.cache_id].verdict
           /\ claim.source = "precedent" => claim.precedents = valid_similar
           /\ claim.source # "precedent" => claim.precedents = {}

\* the Reasoner's answer parses to a list whose items are all strings
ParseableListOfStrings(resp) ==
    /\ resp.kind = "text"
    /\ resp.json = "list" \/ (resp.json = "invalid" /\ resp.bracket = "list")
    /\ \A i \in DOMAIN resp.items : resp.items[i].str = TRUE

\* C23: with claim splitting enabled, if the Reasoner's output is not a
\* parseable list of strings, or the request fails, Prosecutor.process takes
\* the entire case text as its one claim; with splitting disabled the case is
\* always exactly one claim, the case text.
C23_UnsplittableIsOneClaim ==
    Called("claim_texts") =>
        /\ ~call.auto_claim_splitting => ret = Returned(<<call.case_text>>)
        /\ (call.auto_claim_splitting /\ ~ParseableListOfStrings(call.response)) =>
              ret = Returned(<<call.case_text>>)

\* the answer was no JSON and its bracketed part was none either: the second
\* parse failed, and the case text came back as the one claim
C23_Witness ==
    /\ Called("claim_texts")
    /\ call.auto_claim_splitting
    /\ call.has_llm
    /\ call.response.kind = "text"
    /\ call.response.json = "invalid"
    /\ call.response.bracket = "invalid"
    /\ ret = Returned(<<call.case_text>>)

(* ---------------------- properties: Judge.verdict ---------------------- *)

\* the votes of vs that object: suspicious_fact or reasonable_doubt
Objecting(vs) ==
    {i \in DOMAIN vs : vs[i].decision = "suspicious_fact" \/ vs[i].decision = "reasonable_doubt"}

\* the statistics of a ClaimResult are those of its own votes
StatisticsOfVotes(result) ==
    /\ result.objection_count = Cardinality(Objecting(result.jury_votes))
    /\ IF result.jury_votes = <<>>
       THEN result.objection_ratio.num = 0 /\ result.objection_ratio.den = 1
       ELSE /\ result.objection_ratio.den > 0
            /\ result.objection_ratio.num * Len(result.jury_votes)
                  = result.objection_count * result.objection_ratio.den

\* C25: every ClaimResult that goes into a report, the Judge's and the one
\* built from a cache hit, has as objection_count the number of its votes whose
\* decision is suspicious_fact or reasonable_doubt, and as objection_ratio
\* objection_count / len(votes) when it has votes and 0 otherwise; a cache
\* result has no votes, count 0 and ratio 0.
C25_StatisticsOfResult ==
    /\ (Called("verdict") /\ ret.raised = "none") =>
          /\ ret.value.jury_votes = call.jury_votes
          /\ StatisticsOfVotes(ret.value)
    /\ Called("cached_result") =>
          /\ ret.raised = "none"
          /\ ret.value.jury_votes = <<>>
          /\ ret.value.objection_count = 0
          /\ StatisticsOfVotes(ret.value)

\* three votes, one of each objecting kind and an abstain: count 2, ratio 2/3
C25_Witness ==
    /\ Called("verdict")
    /\ ret.raised = "none"
    /\ Len(call.jury_votes) = 3
    /\ call.jury_votes[1].decision = "suspicious_fact"
    /\ call.jury_votes[2].decision = "reasonable_doubt"
    /\ call.jury_votes[3].decision = "abstain"
    /\ ret.value.objection_count = 2
    /\ ret.value.objection_ratio = Ratio(2, 3)

\* the word a sentence uses to state a verdict: the name in capitals
VerdictWord ==
    [supported |-> "SUPPORTED", suspicious |-> "SUSPICIOUS", refuted |-> "REFUTED",
     verified |-> "VERIFIED", rejected |-> "REJECTED", unknown |-> "UNKNOWN"]

\* C27: if the Judge's reasoning request fails, Judge.verdict still returns a
\* ClaimResult with the verdict and statistics of the votes, and its reasoning
\* is the templated sentence, a function of the vote count, the objection ratio
\* and the verdict, that states the verdict actually rendered, for every
\* verdict name the rule set can produce.
C27_FallbackStatesVerdict ==
    (Called("verdict") /\ call.answer \in {"raise", "nondict"}) =>
        /\ ret.raised = "none"
        /\ StatisticsOfVotes(ret.value)
        /\ ret.value.judge_reasoning.kind = "fallback"
        /\ ret.value.judge_reasoning.total_votes = Len(call.jury_votes)
        /\ ret.value.judge_reasoning.states = VerdictWord[ret.value.verdict]

\* C29: the rules given to the Court constructor are the rules applied when
\* its judge, one built without rules of its own, renders a verdict: the
\* verdict is calculate_verdict(objection_ratio, Court.verdict_rules).
C29_CourtRulesApplied ==
    /\ Called("verdict")
    /\ call.judge_rules = <<>>
    /\ call.court_rules # <<>>
    /\ ret.raised = "none"
    => ret.value.verdict
          = calculate_verdict(ret.value.objection_ratio,
                              CourtObject(NumJuries, Quorum, call.court_rules).verdict_rules)

(* ------------------------ properties: hear, end to end ----------------- *)

\* the case of the example: text <<1>> and then text <<2>>, the store holding
\* a "supported" verdict on <<1>> that is in force and nothing for <<2>>, a
\* quorum of three, and the four juries voting no_objection, no_objection,
\* suspicious_fact, abstain
ExampleCase ==
    /\ call.fn = "hear"
    /\ call.claim_texts = << <<1>>, <<2>> >>
    /\ call.juries = ExampleJuries
    /\ call.quorum = ExampleQuorum
    /\ call.found[1].exact # 0
    /\ is_valid(call.rows[call.found[1].exact], call.check_date)
    /\ call.rows[call.found[1].exact].verdict = "supported"
    /\ call.found[2].exact = 0
    /\ {p \in call.found[2].similar : is_valid(call.rows[p], call.check_date)} = {}
    /\ [i \in 1..ExampleJuries |-> call.panel[i].decision]
           = <<"no_objection", "no_objection", "suspicious_fact", "abstain">>

\* C26: hearing the example case ends in a report with status completed and
\* two results in the order of the texts: the first "supported" with no votes
\* (the cached verdict), the second "suspicious" with three votes and an
\* objection ratio of one third.
C26_EndToEnd ==
    ExampleCase /\ ret.raised # "pending"
        => /\ ret.raised = "none"
           /\ ret.value.status = "completed"
           /\ Len(ret.value.claims) = 2
           /\ ret.value.claims[1].claim.text = <<1>>
           /\ ret.value.claims[1].verdict = "supported"
           /\ Len(ret.value.claims[1].jury_votes) = 0
           /\ ret.value.claims[2].claim.text = <<2>>
           /\ ret.value.claims[2].claim.source = "new"
           /\ ret.value.claims[2].verdict = "suspicious"
           /\ Len(ret.value.claims[2].jury_votes) = 3
           /\ ret.value.claims[2].objection_count = 1
           /\ ret.value.claims[2].objection_ratio.num * 3
                  = ret.value.claims[2].objection_ratio.den
           /\ ret.value.claims[2].objection_ratio.den # 0

C26_Witness == ExampleCase /\ ret.raised = "none" /\ Len(ret.value.claims) = 2

(* -------------------- properties: Jury.vote, called twice --------------- *)

\* the second call of vote has ended
SecondCallOver == earlier.calls = 1 /\ j_pc \in {"done", "raised"}

\* C28: with a deterministic stub Reasoner and EvidenceSource, a second call of
\* vote on the same claim ends as the first did, and when it returns a vote
\* that vote equals the first in every field (a vote carries no timestamp
\* here).
C28_SecondVoteEqualsFirst ==
    stub.on /\ SecondCallOver
        => /\ j_raised = earlier.raised
           /\ j_vote = earlier.vote

C28_Witness ==
    /\ stub.on
    /\ SecondCallOver
    /\ j_pc = "done"
    /\ j_cfg.search_cycle_mode
    /\ j_cfg.has_reference
    /\ search_cycle = MaxCycleMax
    /\ j_vote.decision = "suspicious_fact"

(* --------------- properties: hear calls at once on one store ------------ *)

\* every call has returned, each having classified the text as new, tried it
\* and inserted its entry
BothInserted ==
    /\ hears # <<>>
    /\ \A p \in DOMAIN hears :
          /\ hears[p].pc = "returned"
          /\ hears[p].claim.source = "new"
          /\ hears[p].entry # 0

\* neither call failed or lost its verdict, and the store holds an entry of
\* each, under ids of their own
RaceKeepsBothVerdicts ==
    /\ \A p \in DOMAIN hears :
          /\ hears[p].report.status = "completed"
          /\ Len(hears[p].report.claims) = 1
          /\ hears[p].report.claims[1] = hears[p].claim_results[1]
          /\ hears[p].entry \in DOMAIN store
          /\ store[hears[p].entry].claim = RaceText
          /\ store[hears[p].entry].verdict = hears[p].report.claims[1].verdict
          /\ store[hears[p].entry].case_id = p
    /\ \A p, q \in DOMAIN hears :
          p # q => /\ hears[p].entry # hears[q].entry
                   /\ store[hears[p].entry].entry_id # store[hears[q].entry].entry_id

\* an entry one of the calls inserted is in force at the time of the later
\* lookup
RaceEntryInForce ==
    \E p \in DOMAIN hears : is_valid(store[hears[p].entry], later.time)

\* C30: when two calls of hear on one store have both classified the same text
\* as new, tried it and inserted an entry, neither has failed or lost its
\* verdict, both entries are in the store under distinct ids, and a later exact
\* lookup of the text, made while an entry of theirs is in force, is a cache
\* hit.
C30_RaceIsBenign ==
    BothInserted
        => /\ RaceKeepsBothVerdicts
           /\ later.done /\ RaceEntryInForce => later.claim.source = "cache"

(* ----------------------- properties: the store ------------------------- *)

\* C31: the store is only appended to, and only by _record_verdict: every
\* step leaves the rows it holds where and as they are, and a step that
\* changes the store is the Court's write of a verdict, which adds one row.
C31_StoreOnlyAppended ==
    [][/\ Len(store') >= Len(store)
       /\ SubSeq(store', 1, Len(store)) = store
       /\ store' # store => pc = "record" /\ Len(store') = Len(store) + 1]_vars

\* a case has ended in a store that holds a row of an earlier case and a row
\* the case just ended added for the same text
C31_Witness ==
    /\ pc = "idle"
    /\ \E i, j \in DOMAIN store :
          /\ i < j
          /\ store[i].claim = store[j].claim
          /\ store[i].case_id < store[j].case_id
          /\ store[j].case_id = trials

\* C32: search_similar returns at most top_k precedents, in non-increasing
\* order of similarity, each with a similarity of at least the threshold and
\* each the row the store holds under its id; with vector search disabled or
\* the index query failing it returns the empty list, and it never raises.
C32_SimilarResults ==
    Called("search_similar")
        => /\ ret.raised = "none"
           /\ Len(ret.value) <= call.top_k
           /\ \A k \in DOMAIN ret.value :
                 /\ ~BelowThreshold(ret.value[k].similarity_score, call.threshold)
                 /\ k > 1 => ~BelowThreshold(ret.value[k - 1].similarity_score,
                                              ret.value[k].similarity_score)
                 /\ \E i \in DOMAIN call.rows :
                       /\ call.rows[i].entry_id = ret.value[k].precedent_id
                       /\ call.rows[i].claim = ret.value[k].claim
                       /\ call.rows[i].verdict = ret.value[k].verdict
           /\ ~call.enabled \/ call.index.kind = "raise" => ret.value = <<>>

\* the index answered with a farther candidate before a nearer one and with
\* one whose row is gone, and two precedents were returned
C32_Witness ==
    /\ Called("search_similar")
    /\ call.enabled
    /\ call.index.kind = "hits"
    /\ Len(call.index.hits) = MaxHits
    /\ call.index.hits[1].dist > call.index.hits[2].dist
    /\ call.index.hits[3].id \notin {call.rows[i].entry_id : i \in DOMAIN call.rows}
    /\ ret.raised = "none"
    /\ Len(ret.value) = 2

\* C34: an entry the Court inserts at time t into a store with the default
\* validity period StorePeriod is in force from t to t + StorePeriod, and a
\* claim with the entry's text that is looked up at a time within that window
\* is classified as cache.
C34_InsertedEntryServesItsWindow ==
    /\ \A r \in DOMAIN store :
          /\ store[r].valid_from = store[r].timestamp
          /\ store[r].valid_until = store[r].timestamp + StorePeriod
    /\ pc = "prosecutor" =>
          \A k \in DOMAIN claims :
              \A r \in DOMAIN store :
                  /\ store[r].claim = claims[k].text
                  /\ now \in store[r].timestamp..(store[r].timestamp + StorePeriod)
                  => claims[k].source = "cache"

\* ---- properties: the order of the work on the claims of a case ----

\* the units of the panel that have returned
UnitsDone == Cardinality({i \in DOMAIN task_state : task_state[i] = "done"})

\* claim k is over: it was served from the store and nothing ran for it, or
\* every jury voted once and then the Judge ran once and the store write was
\* attempted once, unless the Judge itself failed
ClaimOver(k) ==
    IF claims[k].source = "cache"
    THEN trace[k] = NoTrace
    ELSE /\ trace[k].juries = NumJuries
         /\ trace[k].judge = 1
         /\ \/ trace[k].inserts = 1 /\ trace[k].failure = "none"
            \/ trace[k].inserts = 0 /\ trace[k].failure \in {"write", "error"}

\* C35: the claims are worked on one at a time and in order. Nothing has run
\* for a claim after the current one; every claim before the current one is
\* over (verdict rendered and store write attempted); for the current claim
\* no jury votes twice, the Judge has not run while the panel is out, and
\* once the quorum is checked (the Judge's turn, the store write, or the
\* mistrial report) every one of the NumJuries juries has voted exactly once
\* and the runner holds no unit: quorum reached early ends nothing early.
C35_OneClaimAtATime ==
    \A k \in DOMAIN trace :
        /\ trace[k].juries <= NumJuries
        /\ k > idx => trace[k] = NoTrace
        /\ k < idx => ClaimOver(k)
        /\ k = idx /\ pc = "claims" => trace[k] = NoTrace
        /\ k = idx /\ pc = "panel" =>
              /\ trace[k].juries = UnitsDone
              /\ trace[k].judge = 0
              /\ trace[k].inserts = 0
        /\ k = idx /\ pc \in {"judge", "record", "report"} =>
              /\ trace[k].juries = NumJuries
              /\ Len(votes) = NumJuries
              /\ task_state = <<>>
              /\ pc = "judge" => trace[k].judge = 0
              /\ pc = "record" => trace[k].judge = 1 /\ trace[k].inserts = 0

\* the second claim of a case is before its panel, the first one was tried:
\* its three juries voted, the quorum was reached by the first two, and its
\* verdict was written
C35_Witness ==
    /\ pc = "panel"
    /\ idx = 2
    /\ UnitsDone = 1
    /\ trace[1].juries = NumJuries
    /\ trace[1].inserts = 1
    /\ trace[2].juries = 1

\* ---- properties: the lookups of a case and its inserts ----

\* every lookup of the case is over before its first insert: while the
\* Prosecutor classifies, the store holds no row of this case, and the loop
\* of hear runs only on a complete list of claims
LookupsBeforeInserts ==
    /\ pc = "prosecutor" => CaseRows = <<>>
    /\ pc \in {"claims", "panel", "judge", "record", "report"} => Len(claims) = Len(claim_texts)

\* no claim of the case is served, as a cache hit or as a precedent, from a
\* row this case wrote
NothingFromOwnRows ==
    \A m \in DOMAIN claims :
        /\ claims[m].source = "cache" => store[claims[m].cache_id].case_id < CaseId
        /\ \A p \in claims[m].precedents : store[p].case_id < CaseId

\* the claims of the case that carry one text carry one source
SameTextSameSource ==
    \A k, m \in DOMAIN claims :
        claims[k].text = claims[m].text => claims[k].source = claims[m].source

\* C36 as stated: within one hear every lookup is over before the first insert
\* of the case, two claims of the case with identical text get the same
\* source, and the second is never served from the verdict just recorded for
\* the first.
C36_LookupsFirstSameSource ==
    /\ LookupsBeforeInserts
    /\ NothingFromOwnRows
    /\ SameTextSameSource

\* C36: within one hear every lookup is over before the first insert of the
\* case, so no claim is served from a row its own case wrote: a claim that
\* repeats the text of an earlier claim of the case is never a cache hit on,
\* nor given as precedent, the verdict just recorded for that earlier claim.
C36_LookupsFirst ==
    /\ LookupsBeforeInserts
    /\ NothingFromOwnRows

\* a case of two claims with one text: the first was tried and its verdict
\* is in the store, the second, next in the loop, is not a cache hit
C36_Witness ==
    /\ pc = "claims"
    /\ idx = 2
    /\ Len(claims) = 2
    /\ claims[1].text = claims[2].text
    /\ claims[2].source # "cache"
    /\ \E r \in DOMAIN store : store[r].case_id = CaseId /\ store[r].claim = claims[2].text

\* ---- properties: the shape of the report ----

\* the position among the claims of the case of the j-th result of the report
ReportedClaim(j) ==
    CHOOSE k \in DOMAIN claims : claims[k].claim_id = report.claims[j].claim.claim_id

GotResult(m) ==
    \/ claims[m].source = "cache"
    \/ trace[m].judge = 1 /\ trace[m].failure # "error"

\* the store holds a row of the case just heard for claim m with the verdict
\* of its result, an exact lookup of the claim's text can return that row,
\* and while the row's window is open that lookup makes a cache hit
RowServes(m) ==
    \E r \in DOMAIN store : \E j \in DOMAIN report.claims :
        /\ report.claims[j].claim = claims[m]
        /\ store[r].case_id = trials
        /\ store[r].claim = claims[m].text
        /\ store[r].verdict = report.claims[j].verdict
        /\ r \in search_exact(store, claims[m].text)
        /\ now <= store[r].valid_until =>
              Classify(store, now, 1, claims[m].text, r, {}).source = "cache"

\* C39: when hear reports a mistrial at claim idx, nothing done for the
\* claims before it is undone: each of them that got a result has it in the
\* report, and each whose verdict was inserted has its row in the store,
\* where a later exact lookup of its text can find it and be served from it.
C39_MistrialKeepsEarlierWork ==
    (Reported /\ report.status = "mistrial") =>
        \A m \in 1..(idx - 1) :
            /\ GotResult(m) => HasResult(report.claims, m)
            /\ trace[m].inserts = 1 => RowServes(m)

\* a mistrial at the second claim of a case whose first claim was tried and
\* recorded: the report holds the first result, the store its row
C39_Witness ==
    /\ Reported
    /\ report.status = "mistrial"
    /\ idx = 2
    /\ trace[1].inserts = 1
    /\ Len(report.claims) = 1
    /\ \E r \in DOMAIN store : store[r].case_id = trials /\ store[r].claim = claims[1].text

\* ---- properties: what the verdict depends on ----

\* the reasoning answers the statement names: a text, an empty text, a
\* request that raises
NamedAnswers == {"text", "empty", "raise"}

\* the same three numbers
SameVerdict(a, b) ==
    /\ a.verdict = b.verdict
    /\ a.objection_count = b.objection_count
    /\ a.objection_ratio = b.objection_ratio

\* C40: the verdict, objection_count and objection_ratio of the ClaimResult
\* Judge.verdict returns are those of every other verdict on the same votes
\* under the same rules: whether the claim carries precedents or not, and
\* whatever the reasoning request does. A request that answers a text,
\* answers an empty text or raises always leaves a ClaimResult; what it
\* answers reaches the reasoning text only.
C40_VerdictFromVotesOnly ==
    (Called("verdict") /\ ret.raised = "none") =>
        LET rules == JudgeOfCourt(CourtObject(NumJuries, Quorum, call.court_rules),
                                  JudgeObject(call.judge_rules)).verdict_rules
            ratio == ObjectionRatio(call.jury_votes)
        IN \A similar \in SimilarResults(PrecedentRows) : \A answer \in ReasonerAnswers :
              LET other == JudgeVerdictWith(rules, TriedClaim(similar), call.jury_votes,
                                            generate_reasoning(answer, Len(call.jury_votes),
                                                               ratio,
                                                               calculate_verdict(ratio, rules)))
              IN /\ answer \in NamedAnswers =>
                       VerdictError(rules, call.jury_votes, answer) = ""
                 /\ VerdictError(rules, call.jury_votes, answer) = "" =>
                       SameVerdict(other, ret.value)
                 /\ (similar = call.similar /\ answer = call.answer) => other = ret.value

\* a verdict on two objections out of three for a claim that carries a
\* precedent, the reasoning request having raised: refuted, in the words of
\* the fallback
C40_Witness ==
    /\ Called("verdict")
    /\ ret.raised = "none"
    /\ call.answer = "raise"
    /\ PrecedentsForJudge(ret.value.claim) # {}
    /\ Len(call.jury_votes) = 3
    /\ ret.value.objection_count = 2
    /\ ret.value.verdict = "refuted"
    /\ ret.value.judge_reasoning.kind = "fallback"

\* ---- properties: termination ----

\* C38, the part on the runner: in every Court that was constructed, the
\* runner started by hear starts every jury task, is never blocked for ever
\* on its semaphore, and returns the panel's votes to hear.
C38_RunnerStartsEveryTask ==
    /\ \A i \in JuryIds :
          (i \in DOMAIN task_state /\ task_state[i] = "pending") ~>
              (i \in DOMAIN task_state /\ task_state[i] # "pending")
    /\ (r_pc = "running") ~> (r_pc # "running")
====
